---------------------------- MODULE Spec2Model ----------------------------
(***************************************************************************)
(* Model of the relay server in src/server.js: the handlers that forward  *)
(* a problem to an external model and turn the model's text into the JSON  *)
(* body they answer with.                                                  *)
(*                                                                         *)
(* A text is a sequence of one-character strings.  A JavaScript value is a *)
(* record [t, s, a, o]: t is the kind, s the characters of a string (or    *)
(* the lexeme of a number), a the elements of an array and o the           *)
(* properties of an object, in insertion order, each [k, v].               *)
(*                                                                         *)
(* With(v, Body) names an intermediate result: it is Body applied to v.    *)
(***************************************************************************)
EXTENDS Integers, Sequences, FiniteSets, TLC

(***************************************************************************)
(* Characters and texts                                                    *)
(***************************************************************************)
QUOTE == "\""
BSLASH == "\\"
NL == "\n"
TAB == "\t"
CR == "\r"
\* the backquote character, written as a token: a TLA+ string holds no backquote
BTICK == "backquote"

Digits == {"0", "1", "2", "3", "4", "5", "6", "7", "8", "9"}

LowerLetters ==
  {"a", "b", "c", "d", "e", "f", "g", "h", "i", "j", "k", "l", "m",
   "n", "o", "p", "q", "r", "s", "t", "u", "v", "w", "x", "y", "z"}

UpperLetters ==
  {"A", "B", "C", "D", "E", "F", "G", "H", "I", "J", "K", "L", "M",
   "N", "O", "P", "Q", "R", "S", "T", "U", "V", "W", "X", "Y", "Z"}

\* \s of a JavaScript regular expression and of String.prototype.trim,
\* restricted to the characters texts are made of
IsSpace(c) == c \in {" ", NL, TAB, CR}

\* \w of a JavaScript regular expression
IsWord(c) == c \in Digits \cup LowerLetters \cup UpperLetters \cup {"_"}

\* t.startsWith(w, p - 1): w occurs in t at (1-based) position p
StartsWithAt(t, p, w) ==
  /\ p >= 1
  /\ p + Len(w) - 1 <= Len(t)
  /\ \A i \in 1..Len(w) : t[p + i - 1] = w[i]

\* the least position in lo..hi that satisfies P, 0 if none does: a scan
\* from lo upwards that stops at the first hit
FirstSuch(lo, hi, P(_)) ==
  IF \E i \in lo..hi : P(i)
  THEN CHOOSE i \in lo..hi : P(i) /\ \A j \in lo..(i - 1) : ~P(j)
  ELSE 0

\* the greatest position in lo..hi that satisfies P, 0 if none does
LastSuch(lo, hi, P(_)) ==
  IF \E i \in lo..hi : P(i)
  THEN CHOOSE i \in lo..hi : P(i) /\ \A j \in (i + 1)..hi : ~P(j)
  ELSE 0

\* t.indexOf(w, p - 1) + 1: the first position >= p where w occurs, 0 if none
IndexFrom(t, w, p) ==
  FirstSuch(IF p < 1 THEN 1 ELSE p, Len(t), LAMBDA i : StartsWithAt(t, i, w))

\* the last position <= p where the character c occurs, 0 if none
LastIndexOf(t, c, p) == LastSuch(1, p, LAMBDA i : t[i] = c)

RECURSIVE SkipSpace(_, _)
\* the first position >= p that holds no whitespace (Len(t) + 1 if none)
SkipSpace(t, p) ==
  IF p <= Len(t) /\ IsSpace(t[p]) THEN SkipSpace(t, p + 1) ELSE p

RECURSIVE SkipSpaceBack(_, _)
\* the last position <= p that holds no whitespace (0 if none)
SkipSpaceBack(t, p) ==
  IF p >= 1 /\ IsSpace(t[p]) THEN SkipSpaceBack(t, p - 1) ELSE p

\* t.substring(p - 1): the text from position p on
From(t, p) == IF p > Len(t) THEN <<>> ELSE SubSeq(t, p, Len(t))

\* const x = v; then the body, which uses x
With(v, Body(_)) == Body(v)

\* String.prototype.trim: the text between the first and the last character
\* that is no whitespace
Trim(t) ==
  With(SkipSpace(t, 1), LAMBDA b :
    IF b > Len(t) THEN <<>> ELSE SubSeq(t, b, SkipSpaceBack(t, Len(t))))

(***************************************************************************)
(* JavaScript values                                                       *)
(***************************************************************************)
JUndefined == [t |-> "undefined", s |-> <<>>, a |-> <<>>, o |-> <<>>]
JNull == [t |-> "null", s |-> <<>>, a |-> <<>>, o |-> <<>>]
JTrue == [t |-> "true", s |-> <<>>, a |-> <<>>, o |-> <<>>]
JFalse == [t |-> "false", s |-> <<>>, a |-> <<>>, o |-> <<>>]
JNum(lexeme) == [t |-> "number", s |-> lexeme, a |-> <<>>, o |-> <<>>]
JStr(chars) == [t |-> "string", s |-> chars, a |-> <<>>, o |-> <<>>]
JArr(elems) == [t |-> "array", s |-> <<>>, a |-> elems, o |-> <<>>]
JObj(props) == [t |-> "object", s |-> <<>>, a |-> <<>>, o |-> props]

Prop(key, val) == [k |-> key, v |-> val]

\* the array of the strings of a sequence of texts
StrArray(texts) == JArr([i \in 1..Len(texts) |-> JStr(texts[i])])

\* Array.isArray
IsArray(v) == v.t = "array"

HasKey(props, key) == \E i \in 1..Len(props) : props[i].k = key

\* the value of an own property of an object's property list
Lookup(props, key) ==
  IF HasKey(props, key)
  THEN props[CHOOSE i \in 1..Len(props) : props[i].k = key].v
  ELSE JUndefined

\* obj[key] = val on a property list: an existing key keeps its place
SetProp(props, key, val) ==
  IF HasKey(props, key)
  THEN [i \in 1..Len(props) |->
          IF props[i].k = key THEN Prop(key, val) ELSE props[i]]
  ELSE Append(props, Prop(key, val))

\* v.key cannot be read: v is null or undefined (a TypeError)
ReadThrows(v) == v.t \in {"null", "undefined"}

\* v.key for a key that is no built-in property of strings, numbers or arrays
Get(v, key) == IF v.t = "object" THEN Lookup(v.o, key) ELSE JUndefined

\* the lexeme of a number denotes zero: its digits before any exponent are 0
IsZeroLexeme(lexeme) ==
  \A i \in 1..Len(lexeme) :
    \/ lexeme[i] \in {"0", "-", "."}
    \/ \E j \in 1..(i - 1) : lexeme[j] \in {"e", "E"}
    \/ lexeme[i] \in {"e", "E"}

\* ToBoolean: the operand of || decides by this
Truthy(v) ==
  CASE v.t \in {"undefined", "null", "false"} -> FALSE
    [] v.t = "string" -> v.s # <<>>
    [] v.t = "number" -> ~IsZeroLexeme(v.s)
    [] OTHER -> TRUE

\* a || b
OrElse(a, b) == IF Truthy(a) THEN a ELSE b

(***************************************************************************)
(* JSON.parse                                                              *)
(***************************************************************************)
ParseFail == [ok |-> FALSE, v |-> JUndefined, p |-> 0]
ParseOk(val, next) == [ok |-> TRUE, v |-> val, p |-> next]

RECURSIVE SkipDigits(_, _)
\* the first position >= p that holds no digit (Len(t) + 1 if none)
SkipDigits(t, p) ==
  IF p <= Len(t) /\ t[p] \in Digits THEN SkipDigits(t, p + 1) ELSE p

IsDigitAt(t, p) == p <= Len(t) /\ t[p] \in Digits

\* the position after the JSON number that starts at p, 0 if there is none:
\* -? (0 | [1-9][0-9]*) (. [0-9]+)? ([eE] [+-]? [0-9]+)?
NumberEnd(t, p) ==
  With(IF p <= Len(t) /\ t[p] = "-" THEN p + 1 ELSE p, LAMBDA p1 :
    IF ~IsDigitAt(t, p1) THEN 0
    ELSE With(IF t[p1] = "0" THEN p1 + 1 ELSE SkipDigits(t, p1), LAMBDA p2 :
      With(IF p2 <= Len(t) /\ t[p2] = "."
           THEN IF IsDigitAt(t, p2 + 1) THEN SkipDigits(t, p2 + 1) ELSE 0
           ELSE p2, LAMBDA p3 :
        IF p3 = 0 THEN 0
        ELSE IF p3 <= Len(t) /\ t[p3] \in {"e", "E"}
        THEN With(IF p3 + 1 <= Len(t) /\ t[p3 + 1] \in {"+", "-"}
                  THEN p3 + 2 ELSE p3 + 1, LAMBDA p4 :
               IF IsDigitAt(t, p4) THEN SkipDigits(t, p4) ELSE 0)
        ELSE p3)))

\* the character a JSON escape \c stands for
Unescape(c) ==
  CASE c = "n" -> NL
    [] c = "t" -> TAB
    [] c = "r" -> CR
    [] c = "b" -> "\\b"
    [] c = "f" -> "\\f"
    [] OTHER -> c

HexDigits == Digits \cup {"a", "b", "c", "d", "e", "f", "A", "B", "C", "D", "E", "F"}

RECURSIVE ParseChars(_, _, _)
\* the characters of a JSON string from p on, its opening quote being before
\* p and acc the characters read so far: plain characters up to the next
\* quote, backslash or control character at q, then what q holds
ParseChars(t, p, acc) ==
  With(FirstSuch(p, Len(t), LAMBDA i : t[i] \in {QUOTE, BSLASH, NL, TAB, CR}),
       LAMBDA q :
    IF q = 0 THEN ParseFail
    ELSE IF t[q] = QUOTE THEN ParseOk(JStr(acc \o SubSeq(t, p, q - 1)), q + 1)
    ELSE IF t[q] \in {NL, TAB, CR} THEN ParseFail
    ELSE IF q + 1 > Len(t) THEN ParseFail
    ELSE IF t[q + 1] \in {QUOTE, BSLASH, "/", "b", "f", "n", "r", "t"}
    THEN ParseChars(t, q + 2,
           Append(acc \o SubSeq(t, p, q - 1), Unescape(t[q + 1])))
    ELSE IF /\ t[q + 1] = "u"
            /\ q + 5 <= Len(t)
            /\ \A i \in 2..5 : t[q + i] \in HexDigits
    THEN ParseChars(t, q + 6,
           Append(acc \o SubSeq(t, p, q - 1),
                  "\\u" \o t[q + 2] \o t[q + 3] \o t[q + 4] \o t[q + 5]))
    ELSE ParseFail)

RECURSIVE ParseValue(_, _)
RECURSIVE ParseElements(_, _, _)
RECURSIVE ParseMembers(_, _, _)

\* the rest of an array: p is just after an element
ParseElements(t, p, acc) ==
  With(SkipSpace(t, p), LAMBDA q :
    IF q > Len(t) THEN ParseFail
    ELSE IF t[q] = "]" THEN ParseOk(JArr(acc), q + 1)
    ELSE IF t[q] = ","
    THEN With(ParseValue(t, q + 1), LAMBDA r :
           IF r.ok THEN ParseElements(t, r.p, Append(acc, r.v)) ELSE ParseFail)
    ELSE ParseFail)

\* one "key": value member starting at or after p, then the rest of the object
ParseMembers(t, p, acc) ==
  With(SkipSpace(t, p), LAMBDA q :
    IF q > Len(t) \/ t[q] # QUOTE THEN ParseFail
    ELSE With(ParseChars(t, q + 1, <<>>), LAMBDA key :
      IF ~key.ok THEN ParseFail
      ELSE With(SkipSpace(t, key.p), LAMBDA c :
        IF c > Len(t) \/ t[c] # ":" THEN ParseFail
        ELSE With(ParseValue(t, c + 1), LAMBDA r :
          IF ~r.ok THEN ParseFail
          ELSE With(SkipSpace(t, r.p), LAMBDA e :
            IF e > Len(t) THEN ParseFail
            ELSE IF t[e] = "}"
            THEN ParseOk(JObj(SetProp(acc, key.v.s, r.v)), e + 1)
            ELSE IF t[e] = ","
            THEN ParseMembers(t, e + 1, SetProp(acc, key.v.s, r.v))
            ELSE ParseFail)))))

\* the JSON value that starts at or after p
ParseValue(t, p) ==
  With(SkipSpace(t, p), LAMBDA q :
    IF q > Len(t) THEN ParseFail
    ELSE IF t[q] = "{"
    THEN With(SkipSpace(t, q + 1), LAMBDA e :
           IF e <= Len(t) /\ t[e] = "}" THEN ParseOk(JObj(<<>>), e + 1)
           ELSE ParseMembers(t, e, <<>>))
    ELSE IF t[q] = "["
    THEN With(SkipSpace(t, q + 1), LAMBDA e :
           IF e <= Len(t) /\ t[e] = "]" THEN ParseOk(JArr(<<>>), e + 1)
           ELSE With(ParseValue(t, e), LAMBDA r :
                  IF r.ok THEN ParseElements(t, r.p, <<r.v>>) ELSE ParseFail))
    ELSE IF t[q] = QUOTE THEN ParseChars(t, q + 1, <<>>)
    ELSE IF StartsWithAt(t, q, <<"n", "u", "l", "l">>) THEN ParseOk(JNull, q + 4)
    ELSE IF StartsWithAt(t, q, <<"t", "r", "u", "e">>) THEN ParseOk(JTrue, q + 4)
    ELSE IF StartsWithAt(t, q, <<"f", "a", "l", "s", "e">>) THEN ParseOk(JFalse, q + 5)
    ELSE With(NumberEnd(t, q), LAMBDA e :
           IF e = 0 THEN ParseFail ELSE ParseOk(JNum(SubSeq(t, q, e - 1)), e)))

\* JSON.parse(t): ok is FALSE where JSON.parse throws a SyntaxError; only
\* whitespace may follow the value
JSONParse(t) ==
  With(ParseValue(t, 1), LAMBDA r :
    IF r.ok /\ SkipSpace(t, r.p) = Len(t) + 1 THEN r ELSE ParseFail)

(***************************************************************************)
(* Property names, sentinel texts and fence markers of the source          *)
(***************************************************************************)
K_code ==
  <<"c", "o", "d", "e">>

K_thoughts ==
  <<"t", "h", "o", "u", "g", "h", "t", "s">>

K_time_complexity ==
  <<"t", "i", "m", "e", "_", "c", "o", "m", "p", "l", "e", "x", "i", "t",
    "y">>

K_space_complexity ==
  <<"s", "p", "a", "c", "e", "_", "c", "o", "m", "p", "l", "e", "x", "i",
    "t", "y">>

K_correctOption ==
  <<"c", "o", "r", "r", "e", "c", "t", "O", "p", "t", "i", "o", "n">>

K_explanation ==
  <<"e", "x", "p", "l", "a", "n", "a", "t", "i", "o", "n">>

K_problem_statement ==
  <<"p", "r", "o", "b", "l", "e", "m", "_", "s", "t", "a", "t", "e", "m",
    "e", "n", "t">>

K_test_cases ==
  <<"t", "e", "s", "t", "_", "c", "a", "s", "e", "s">>

K_error ==
  <<"e", "r", "r", "o", "r">>

K_details ==
  <<"d", "e", "t", "a", "i", "l", "s">>

NotSpecified ==
  <<"N", "o", "t", " ", "s", "p", "e", "c", "i", "f", "i", "e", "d">>

NoExplanation ==
  <<"N", "o", " ", "e", "x", "p", "l", "a", "n", "a", "t", "i", "o", "n",
    " ", "p", "r", "o", "v", "i", "d", "e", "d">>

NoReasoning ==
  <<"N", "o", " ", "s", "p", "e", "c", "i", "f", "i", "c", " ", "r", "e",
    "a", "s", "o", "n", "i", "n", "g", " ", "p", "r", "o", "v", "i", "d",
    "e", "d">>

NoDebugObservations ==
  <<"N", "o", " ", "s", "p", "e", "c", "i", "f", "i", "c", " ", "d", "e",
    "b", "u", "g", " ", "o", "b", "s", "e", "r", "v", "a", "t", "i", "o",
    "n", "s", " ", "p", "r", "o", "v", "i", "d", "e", "d">>

CouldNotDetermine ==
  <<"C", "o", "u", "l", "d", " ", "n", "o", "t", " ", "d", "e", "t", "e",
    "r", "m", "i", "n", "e", " ", "f", "r", "o", "m", " ", "r", "e", "s",
    "p", "o", "n", "s", "e">>

AutoExtractedDebug ==
  <<"A", "u", "t", "o", "m", "a", "t", "i", "c", "a", "l", "l", "y", " ",
    "e", "x", "t", "r", "a", "c", "t", "e", "d", " ", "f", "r", "o", "m",
    " ", "u", "n", "s", "t", "r", "u", "c", "t", "u", "r", "e", "d", " ",
    "d", "e", "b", "u", "g", " ", "r", "e", "s", "p", "o", "n", "s", "e">>

AutoExtracted ==
  <<"A", "u", "t", "o", "m", "a", "t", "i", "c", "a", "l", "l", "y", " ",
    "e", "x", "t", "r", "a", "c", "t", "e", "d", " ", "f", "r", "o", "m",
    " ", "u", "n", "s", "t", "r", "u", "c", "t", "u", "r", "e", "d", " ",
    "r", "e", "s", "p", "o", "n", "s", "e">>

FenceJson ==
  <<BTICK, BTICK, BTICK, "j", "s", "o", "n">>

Fence ==
  <<BTICK, BTICK, BTICK>>

Q_correctOption ==
  <<QUOTE, "c", "o", "r", "r", "e", "c", "t", "O", "p", "t", "i", "o", "n",
    QUOTE>>

Q_thoughts ==
  <<QUOTE, "t", "h", "o", "u", "g", "h", "t", "s", QUOTE>>

Q_explanation ==
  <<QUOTE, "e", "x", "p", "l", "a", "n", "a", "t", "i", "o", "n", QUOTE>>

(***************************************************************************)
(* The regular expressions of the handlers                                 *)
(***************************************************************************)
NoMatch == [found |-> FALSE, text |-> <<>>]
Match(text) == [found |-> TRUE, text |-> text]

\* text.match(/\{[\s\S]*\}/): greedy, from the first "{" to the last "}"
BraceMatch(t) ==
  With(IndexFrom(t, <<"{">>, 1), LAMBDA first :
    With(LastIndexOf(t, "}", Len(t)), LAMBDA last :
      IF first > 0 /\ last > first THEN Match(SubSeq(t, first, last)) ELSE NoMatch))

\* /```json\s*|\s*```/ matches at position p
IsFenceAt(t, p) ==
  StartsWithAt(t, p, FenceJson) \/ StartsWithAt(t, SkipSpace(t, p), Fence)

\* the position after the match of /```json\s*|\s*```/ at m: the first
\* alternative is tried first
FenceEnd(t, m) ==
  IF StartsWithAt(t, m, FenceJson)
  THEN SkipSpace(t, m + Len(FenceJson))
  ELSE SkipSpace(t, m) + Len(Fence)

RECURSIVE StripFencesFrom(_, _)
\* the text from p on without the matches of /```json\s*|\s*```/, the next
\* of which starts at m
StripFencesFrom(t, p) ==
  With(FirstSuch(p, Len(t), LAMBDA i : IsFenceAt(t, i)), LAMBDA m :
    IF m = 0 THEN From(t, p)
    ELSE SubSeq(t, p, m - 1) \o StripFencesFrom(t, FenceEnd(t, m)))

\* content.replace(/```json\s*|\s*```/g, '')
StripFences(t) == StripFencesFrom(t, 1)

RECURSIVE SkipWord(_, _)
\* the first position >= p that holds no word character (Len(t) + 1 if none)
SkipWord(t, p) ==
  IF p <= Len(t) /\ IsWord(t[p]) THEN SkipWord(t, p + 1) ELSE p

\* /```[\w]*\n([\s\S]*?)```/ matches at position p: a fence, a word that
\* ends before w, a newline and, later, a closing fence
IsFencedBlockAt(t, p) ==
  /\ StartsWithAt(t, p, Fence)
  /\ With(SkipWord(t, p + Len(Fence)), LAMBDA w :
       w <= Len(t) /\ t[w] = NL /\ IndexFrom(t, Fence, w + 1) > 0)

RECURSIVE UnfenceFrom(_, _)
\* the text from p on with every fenced block replaced by its inside: the
\* next block starts at m, its first line ends at w and its closing fence
\* starts at close
UnfenceFrom(t, p) ==
  With(FirstSuch(p, Len(t), LAMBDA i : IsFencedBlockAt(t, i)), LAMBDA m :
    IF m = 0 THEN From(t, p)
    ELSE With(SkipWord(t, m + Len(Fence)), LAMBDA w :
      With(IndexFrom(t, Fence, w + 1), LAMBDA close :
        SubSeq(t, p, m - 1) \o SubSeq(t, w + 1, close - 1)
          \o UnfenceFrom(t, close + Len(Fence)))))

\* fullResponse.replace(/```[\w]*\n([\s\S]*?)```/g, "$1")
Unfence(t) == UnfenceFrom(t, 1)

RECURSIVE ReplaceAll(_, _, _, _)
\* t.replace(/w/g, by) for a literal w, from position p on
ReplaceAll(t, w, by, p) ==
  With(IndexFrom(t, w, p), LAMBDA m :
    IF m = 0 THEN From(t, p)
    ELSE SubSeq(t, p, m - 1) \o by \o ReplaceAll(t, w, by, m + Len(w)))

\* key\s*:\s*open matches at k: the position of the character open, after
\* the key, a colon and optional whitespace; 0 if it does not match
OpenAfterKey(t, key, open, k) ==
  With(SkipSpace(t, k + Len(key)), LAMBDA colon :
    IF colon <= Len(t) /\ t[colon] = ":"
    THEN With(SkipSpace(t, colon + 1), LAMBDA o :
           IF o <= Len(t) /\ t[o] = open THEN o ELSE 0)
    ELSE 0)

RECURSIVE KeyGroupFrom(_, _, _, _, _, _)
\* the first group of the first match, from p on, of the regular expression
\* key \s* : \s* open ( group ) close, where the group holds no closing
\* character and at least least characters: the key is tried at each place
\* k it occurs, the group being what stands between the opening character
\* at o and the first closing character after it, at c
KeyGroupFrom(t, key, open, close, least, p) ==
  With(IndexFrom(t, key, p), LAMBDA k :
    IF k = 0 THEN NoMatch
    ELSE With(OpenAfterKey(t, key, open, k), LAMBDA o :
      With(IF o > 0 THEN IndexFrom(t, <<close>>, o + 1) ELSE 0, LAMBDA c :
        IF o > 0 /\ c >= o + 1 + least
        THEN Match(SubSeq(t, o + 1, c - 1))
        ELSE KeyGroupFrom(t, key, open, close, least, k + 1))))

\* cleanedJson.match(/"correctOption"\s*:\s*"([^"]+)"/)
CorrectOptionMatch(t) == KeyGroupFrom(t, Q_correctOption, QUOTE, QUOTE, 1, 1)

\* cleanedJson.match(/"thoughts"\s*:\s*\[([\s\S]*?)\]/)
ThoughtsMatch(t) == KeyGroupFrom(t, Q_thoughts, "[", "]", 0, 1)

\* the regular expression /,(?=\s*")/ matches at position p
IsItemComma(t, p) ==
  /\ t[p] = ","
  /\ SkipSpace(t, p + 1) <= Len(t)
  /\ t[SkipSpace(t, p + 1)] = QUOTE

RECURSIVE SplitFrom(_, _)
\* the pieces of t from position start on, the next separator being at m
SplitFrom(t, start) ==
  With(FirstSuch(start, Len(t), LAMBDA i : IsItemComma(t, i)), LAMBDA m :
    IF m = 0 THEN <<From(t, start)>>
    ELSE <<SubSeq(t, start, m - 1)>> \o SplitFrom(t, m + 1))

\* inner.split(/,(?=\s*")/g)
SplitItems(t) == SplitFrom(t, 1)

\* item => { m = item.match(/"([\s\S]*?)"/); return m ? m[1] : item.trim() }
ItemContent(item) ==
  With(IndexFrom(item, <<QUOTE>>, 1), LAMBDA q1 :
    With(IF q1 > 0 THEN IndexFrom(item, <<QUOTE>>, q1 + 1) ELSE 0, LAMBDA q2 :
      IF q2 > 0 THEN SubSeq(item, q1 + 1, q2 - 1) ELSE Trim(item)))

\* items.map(item => ...).filter(item => item.length > 0)
ItemContents(items) ==
  SelectSeq([i \in 1..Len(items) |-> ItemContent(items[i])], LAMBDA it : Len(it) > 0)

\* the thoughts of the manual extraction of /api/answer-mcq
RecoverThoughts(t) ==
  With(ThoughtsMatch(t), LAMBDA m :
    IF m.found THEN ItemContents(SplitItems(m.text)) ELSE <<NoReasoning>>)

\* a manual extraction whose pattern is "([^"]*)" and so takes an empty value
RecoverCorrectOptionOrEmpty(t) ==
  With(KeyGroupFrom(t, Q_correctOption, QUOTE, QUOTE, 0, 1), LAMBDA m :
    IF m.found THEN m.text ELSE NotSpecified)

\* the correctOption of the manual extraction of /api/answer-mcq
RecoverCorrectOption(t) ==
  With(CorrectOptionMatch(t), LAMBDA m : IF m.found THEN m.text ELSE NotSpecified)

\* the condition of the loop that looks for the end quote in remainingText
IsEndQuote(r, i) ==
  /\ r[i] = QUOTE
  /\ (i = 1 \/ r[i - 1] # BSLASH)
  /\ SkipSpace(r, i + 1) <= Len(r)
  /\ r[SkipSpace(r, i + 1)] = "}"

\* the loop that looks for the end quote in remainingText: it breaks at the
\* first position that satisfies the condition; 0 when it ends without one
EndQuoteFrom(r, i) == FirstSuch(i, Len(r), LAMBDA j : IsEndQuote(r, j))

\* the explanation of the manual extraction of /api/answer-mcq.
\* explanationStart is where "explanation" occurs first, 0 if nowhere;
\* indexOf(':', explanationStartIdx) + 1 and indexOf('"', contentStartIdx) + 1
\* are 0 where there is no colon and no quote
RecoverExplanation(t) ==
  With(IndexFrom(t, Q_explanation, 1), LAMBDA explanationStart :
    IF explanationStart = 0 THEN NoExplanation
    ELSE With(IndexFrom(t, <<":">>, explanationStart), LAMBDA contentStartIdx :
      With(IndexFrom(t, <<QUOTE>>, contentStartIdx + 1), LAMBDA contentStartQuoteIdx :
        With(From(t, contentStartQuoteIdx + 1), LAMBDA remainingText :
          With(EndQuoteFrom(remainingText, 1), LAMBDA contentEndQuote :
            IF contentEndQuote = 0 THEN NoExplanation
            ELSE ReplaceAll(
                   ReplaceAll(SubSeq(remainingText, 1, contentEndQuote - 1),
                              <<BSLASH, "n">>, <<NL>>, 1),
                   <<BSLASH, QUOTE>>, <<QUOTE>>, 1))))))
(***************************************************************************)
(* The zod schemas                                                         *)
(***************************************************************************)
ZodFail == [ok |-> FALSE, v |-> JUndefined]
ZodOk(val) == [ok |-> TRUE, v |-> val]

\* z.string()
ZString(v) == v.t = "string"
\* z.string().optional()
ZOptionalString(v) == v.t \in {"string", "undefined"}
\* z.array(z.string())
ZStringArray(v) == v.t = "array" /\ \A i \in 1..Len(v.a) : v.a[i].t = "string"
\* z.array(z.string()).optional()
ZOptionalStringArray(v) == v.t = "undefined" \/ ZStringArray(v)

\* the properties a z.object keeps: the keys of its shape, in the order of
\* the shape, that the input has
KeepKeys(v, keys) ==
  With(SelectSeq(keys, LAMBDA k : HasKey(v.o, k)), LAMBDA present :
    JObj([i \in 1..Len(present) |-> Prop(present[i], Lookup(v.o, present[i]))]))

\* SolutionResponse.parse of /api/generate: every field required
SolutionResponse(v) ==
  IF /\ v.t = "object"
     /\ ZStringArray(Get(v, K_thoughts))
     /\ ZString(Get(v, K_code))
     /\ ZString(Get(v, K_time_complexity))
     /\ ZString(Get(v, K_space_complexity))
  THEN ZodOk(KeepKeys(v, <<K_thoughts, K_code, K_time_complexity, K_space_complexity>>))
  ELSE ZodFail

\* SolutionResponse.parse of /claude/api/generate and /mistral/api/generate:
\* every field optional
SolutionResponseOptional(v) ==
  IF /\ v.t = "object"
     /\ ZOptionalStringArray(Get(v, K_thoughts))
     /\ ZOptionalString(Get(v, K_code))
     /\ ZOptionalString(Get(v, K_time_complexity))
     /\ ZOptionalString(Get(v, K_space_complexity))
  THEN ZodOk(KeepKeys(v, <<K_thoughts, K_code, K_time_complexity, K_space_complexity>>))
  ELSE ZodFail

\* a schema whose test_cases has no default: z.array(z.any()).optional()
ExtractResponseWithoutDefault(v) ==
  IF /\ v.t = "object"
     /\ ZString(Get(v, K_problem_statement))
     /\ Get(v, K_test_cases).t \in {"array", "undefined"}
  THEN ZodOk(IF Get(v, K_test_cases).t = "undefined"
             THEN JObj(<<Prop(K_problem_statement, Get(v, K_problem_statement))>>)
             ELSE JObj(<<Prop(K_problem_statement, Get(v, K_problem_statement)),
                         Prop(K_test_cases, Get(v, K_test_cases))>>))
  ELSE ZodFail

\* ExtractResponse.parse
ExtractResponse(v) ==
  IF /\ v.t = "object"
     /\ ZString(Get(v, K_problem_statement))
     /\ Get(v, K_test_cases).t \in {"array", "undefined"}
  THEN ZodOk(JObj(<<Prop(K_problem_statement, Get(v, K_problem_statement)),
                    Prop(K_test_cases,
                         IF Get(v, K_test_cases).t = "undefined"
                         THEN JArr(<<>>)
                         ELSE Get(v, K_test_cases))>>))
  ELSE ZodFail

(***************************************************************************)
(* Responses.  via records the path of the handler that sent the response *)
(***************************************************************************)
NoResponse == [status |-> 0, body |-> JUndefined, via |-> "none"]

\* res.json(body): status 200
Json(body, via) == [status |-> 200, body |-> body, via |-> via]

\* res.status(status).json({ error }); the message is one token
ErrorJson(status, msg, via) ==
  [status |-> status, body |-> JObj(<<Prop(K_error, JStr(<<msg>>))>>), via |-> via]

\* res.status(status).json({ error, details: error.message })
ErrorDetailsJson(status, msg, details, via) ==
  [status |-> status,
   body |-> JObj(<<Prop(K_error, JStr(<<msg>>)), Prop(K_details, JStr(<<details>>))>>),
   via |-> via]
(***************************************************************************)
(* The message of an error raised by a library: one token each             *)
(***************************************************************************)
SyntaxErrorMessage == "SyntaxError.message"
ZodErrorMessage == "ZodError.message"
TypeErrorMessage == "TypeError.message"
UpstreamErrorMessage == "upstream error.message"


(***************************************************************************)
(* What each handler does with the text of the model                       *)
(***************************************************************************)
\* /api/answer-mcq: the manual extraction after the direct parse failed
McqManualExtraction(cleanedJson) ==
  JObj(<<Prop(K_correctOption, JStr(RecoverCorrectOption(cleanedJson))),
         Prop(K_thoughts, StrArray(RecoverThoughts(cleanedJson))),
         Prop(K_explanation, JStr(RecoverExplanation(cleanedJson)))>>)

\* /api/answer-mcq: from the content of the reply to the response
AnswerMcqProcess(content) ==
  With(Trim(StripFences(content)), LAMBDA cleanedJson :
    With(JSONParse(cleanedJson), LAMBDA direct :
      IF direct.ok THEN Json(direct.v, "parsed")
      ELSE Json(McqManualExtraction(cleanedJson), "recovered")))

\* /api/extract: from the text block of the reply to the response
ExtractProcess(contentText) ==
  With(BraceMatch(contentText), LAMBDA jsonMatch :
    IF ~jsonMatch.found
    THEN ErrorJson(500, "Could not extract JSON from Claude's response", "no_json")
    ELSE With(JSONParse(jsonMatch.text), LAMBDA parsed :
      IF ~parsed.ok THEN ErrorJson(500, SyntaxErrorMessage, "parse_error")
      ELSE With(ExtractResponse(parsed.v), LAMBDA result :
        IF ~result.ok THEN ErrorJson(500, ZodErrorMessage, "validation_error")
        ELSE Json(result.v, "validated"))))

\* /api/generate: from the content of the reply to the response
GenerateProcess(content) ==
  With(JSONParse(content), LAMBDA parsed :
    IF ~parsed.ok THEN ErrorJson(500, SyntaxErrorMessage, "parse_error")
    ELSE With(SolutionResponse(parsed.v), LAMBDA result :
      IF ~result.ok THEN ErrorJson(500, ZodErrorMessage, "validation_error")
      ELSE Json(result.v, "validated")))

\* fullResponse.replace(/```[\w]*\n([\s\S]*?)```/g, "$1").trim() || fullResponse
FallbackCode(fullResponse) ==
  With(Trim(Unfence(fullResponse)), LAMBDA code :
    IF code # <<>> THEN code ELSE fullResponse)

\* the fallbackResponse of /api/debug, /claude/api/generate and
\* /mistral/api/generate; thought is the text of its only thought
FallbackResponse(fullResponse, thought) ==
  JObj(<<Prop(K_code, JStr(FallbackCode(fullResponse))),
         Prop(K_thoughts, JArr(<<JStr(thought)>>)),
         Prop(K_time_complexity, JStr(CouldNotDetermine)),
         Prop(K_space_complexity, JStr(CouldNotDetermine))>>)

\* /api/debug: "Ensure required fields exist"
EnsureRequiredFields(jsonResponse) ==
  JObj(<<Prop(K_code, OrElse(Get(jsonResponse, K_code), JStr(<<>>))),
         Prop(K_thoughts,
              With(Get(jsonResponse, K_thoughts), LAMBDA thoughts :
                IF IsArray(thoughts) THEN thoughts
                ELSE JArr(<<JStr(NoDebugObservations)>>))),
         Prop(K_time_complexity,
              OrElse(Get(jsonResponse, K_time_complexity), JStr(NotSpecified))),
         Prop(K_space_complexity,
              OrElse(Get(jsonResponse, K_space_complexity), JStr(NotSpecified)))>>)

\* jsonMatch ? JSON.parse(jsonMatch[0]) : JSON.parse(fullResponse)
ParseJsonIn(fullResponse) ==
  With(BraceMatch(fullResponse), LAMBDA jsonMatch :
    JSONParse(IF jsonMatch.found THEN jsonMatch.text ELSE fullResponse))

\* /api/debug: from the content of the reply to the response
DebugProcess(fullResponse) ==
  With(ParseJsonIn(fullResponse), LAMBDA parsed :
    IF ~parsed.ok \/ ReadThrows(parsed.v)
    THEN Json(FallbackResponse(fullResponse, AutoExtractedDebug), "fallback")
    ELSE Json(EnsureRequiredFields(parsed.v), "parsed"))

\* /claude/api/generate and /mistral/api/generate: from the content of the
\* reply to the response
GenerateOptionalProcess(fullResponse) ==
  With(ParseJsonIn(fullResponse), LAMBDA parsed :
    IF ~parsed.ok
    THEN Json(FallbackResponse(fullResponse, AutoExtracted), "fallback")
    ELSE With(SolutionResponseOptional(parsed.v), LAMBDA result :
      IF ~result.ok
      THEN Json(FallbackResponse(fullResponse, AutoExtracted), "fallback")
      ELSE Json(result.v, "validated")))

(***************************************************************************)
(* The replies of the external model.  The prompts ask for a JSON object   *)
(* in a fixed format; a reply is that object as the model writes it: as    *)
(* JSON, inside a markdown fence, after a line of prose, with a field      *)
(* missing or of another kind, with quotes left unescaped, or no JSON.     *)
(***************************************************************************)
\* the greatest number of elements of a thoughts array in a reply
MaxThoughts == 2
\* the greatest length of a thought written without escaping
MaxElemLen == 2
\* the greatest length of an explanation written without escaping
MaxExplLen == 3

Prose ==
  <<"H", "e", "r", "e", " ", "i", "s", " ", "t", "h", "e", " ", "a", "n",
    "s", "w", "e", "r", ":">>

BigO ==
  <<"O", "(", "1", ")">>

RECURSIVE Flatten(_)
\* the concatenation of a sequence of texts
Flatten(parts) ==
  IF parts = <<>> THEN <<>> ELSE Head(parts) \o Flatten(Tail(parts))

\* the texts of a sequence, with sep between them
Join(parts, sep) ==
  Flatten([i \in 1..Len(parts) |->
             IF i = 1 THEN parts[i] ELSE sep \o parts[i]])

\* a string as JSON.stringify writes it
RenderString(chars) ==
  <<QUOTE>> \o Flatten([i \in 1..Len(chars) |->
                          CASE chars[i] = QUOTE -> <<BSLASH, QUOTE>>
                            [] chars[i] = BSLASH -> <<BSLASH, BSLASH>>
                            [] chars[i] = NL -> <<BSLASH, "n">>
                            [] OTHER -> <<chars[i]>>]) \o <<QUOTE>>

RECURSIVE Render(_)
\* a value as JSON.stringify writes it
Render(v) ==
  CASE v.t = "string" -> RenderString(v.s)
    [] v.t = "number" -> v.s
    [] v.t = "null" -> <<"n", "u", "l", "l">>
    [] v.t = "true" -> <<"t", "r", "u", "e">>
    [] v.t = "false" -> <<"f", "a", "l", "s", "e">>
    [] v.t = "array" ->
         <<"[">> \o Join([i \in 1..Len(v.a) |-> Render(v.a[i])], <<",">>) \o <<"]">>
    [] v.t = "object" ->
         <<"{">> \o Join([i \in 1..Len(v.o) |->
                            RenderString(v.o[i].k) \o <<":">> \o Render(v.o[i].v)],
                         <<",">>) \o <<"}">>

\* the object with the given properties; a property whose value is
\* undefined is a field the model left out
ObjectOf(props) == JObj(SelectSeq(props, LAMBDA pr : pr.v.t # "undefined"))

\* all sequences over S of length lo..hi
SeqsOf(S, lo, hi) == UNION {[1..n -> S] : n \in lo..hi}

Five == JNum(<<"5">>)
Zero == JNum(<<"0">>)

\* what the model may put in a string field
StringVariants == {JUndefined, JNull, Five, JStr(<<>>), JStr(<<"x">>)}

\* what the model may put in the thoughts field
ThoughtsVariants ==
  {JUndefined, JNull, JStr(<<"x">>)}
    \cup {JArr(a) : a \in SeqsOf({JStr(<<"a">>), Five}, 0, MaxThoughts)}

\* the objects of the format of the code prompts (server.js 485-490, 513-518,
\* 943-948, 1115-1120)
SolutionObjects ==
  {ObjectOf(<<Prop(K_code, c), Prop(K_thoughts, th),
              Prop(K_time_complexity, tc), Prop(K_space_complexity, sc)>>) :
     c \in StringVariants \cup {Zero},
     th \in ThoughtsVariants,
     tc \in {JUndefined, Five, JStr(<<>>), JStr(BigO)},
     sc \in {JUndefined, JStr(<<>>), JStr(BigO)}}

\* the objects of the format of the MCQ prompt (server.js 165-169)
McqObjects ==
  {ObjectOf(<<Prop(K_correctOption, co), Prop(K_thoughts, th),
              Prop(K_explanation, ex)>>) :
     co \in {JUndefined, JNull, Five, JStr(<<>>), JStr(<<"B">>)},
     th \in ThoughtsVariants,
     ex \in {JUndefined, JNull, JStr(<<>>), JStr(<<"e">>)}}

\* one test case of the format of the extraction prompt
TestCase == JObj(<<Prop(<<"i", "n", "p", "u", "t">>, Five)>>)

\* the objects of the format of the extraction prompt (server.js 359-368)
ExtractObjects ==
  {ObjectOf(<<Prop(K_problem_statement, ps), Prop(K_test_cases, tcs)>>) :
     ps \in StringVariants,
     tcs \in {JUndefined, JNull, JStr(<<"x">>), JArr(<<>>), JArr(<<TestCase>>),
              JArr(<<Five, JNull>>)}}

\* JSON values that are no objects of the format
OtherValues == {JArr(<<>>), Five, JStr(<<"x">>), JStr(<<"{", "x", "}">>), JNull, JTrue}

\* texts that are no JSON: nothing, prose, a cut-off object, braces in prose
FreeTexts ==
  {<<>>,
   Prose,
   <<"{", QUOTE, "c", "o", "d", "e", QUOTE, ":">>,
   Prose \o <<" ", "{", "x", "}">>,
   <<"{", "}", " ", "o", "r", " ", "{", "}">>}

\* a reply that carries a text: form says how the text was written and src
\* is the value the model meant to give
TextReply(text, form, src) ==
  [kind |-> "text", text |-> text, form |-> form, src |-> src, status |-> 0]

\* the ways a model writes a value v, json being its JSON text
WaysToWrite(v) ==
  With(Render(v), LAMBDA json :
    {TextReply(json, "json", v),
     TextReply(Prose \o <<NL>> \o FenceJson \o <<NL>> \o json \o <<NL>> \o Fence,
               "fenced", v),
     TextReply(FenceJson \o <<NL>> \o json \o <<NL>> \o Fence, "bare_fence", v),
     TextReply(Prose \o <<" ">> \o json, "prose_json", v)})

\* thoughts and explanations as a model writes them when it escapes nothing
ElemTexts == SeqsOf({"a", ",", " ", QUOTE, "]"}, 1, MaxElemLen)
ExplTexts == SeqsOf({"a", QUOTE, "}", " ", BSLASH}, 0, MaxExplLen)

\* the MCQ object written in the format of the prompt with the thoughts and
\* the explanation copied in as they are, no character escaped
McqRawText(elems, expl) ==
  <<"{">> \o Q_correctOption \o <<":", " ", QUOTE, "B", QUOTE, ",", " ">>
    \o Q_thoughts \o <<":", " ", "[">>
    \o Join([i \in 1..Len(elems) |-> <<QUOTE>> \o elems[i] \o <<QUOTE>>], <<",", " ">>)
    \o <<"]", ",", " ">> \o Q_explanation \o <<":", " ", QUOTE>> \o expl
    \o <<QUOTE, "}">>

McqRawReply(elems, expl) ==
  TextReply(McqRawText(elems, expl), "mcq_raw",
            JObj(<<Prop(K_correctOption, JStr(<<"B">>)),
                   Prop(K_thoughts, JArr([i \in 1..Len(elems) |-> JStr(elems[i])])),
                   Prop(K_explanation, JStr(expl))>>))

\* an explanation that quotes a letter, as in: The answer is "B" because
QuotedExpl == <<"a", " ", QUOTE, "B", QUOTE, " ", "a">>

McqRawReplies ==
  {McqRawReply(<<<<"a">>>>, ex) : ex \in ExplTexts}
    \cup {McqRawReply(el, QuotedExpl) : el \in SeqsOf(ElemTexts, 0, MaxThoughts)}

\* an explanation that quotes a pair of the format, as in: a "correctOption": "Z"
EchoExpl == <<"a", " ">> \o Q_correctOption \o <<":", " ", QUOTE, "Z", QUOTE>>

\* the object of the MCQ prompt written with an empty correctOption and with
\* the quotes inside the explanation expl left unescaped
McqUnansweredText(expl) ==
  <<"{">> \o Q_correctOption \o <<":", " ", QUOTE, QUOTE, ",", " ">>
    \o Q_thoughts \o <<":", " ", "[", QUOTE, "a", QUOTE, "]", ",", " ">>
    \o Q_explanation \o <<":", " ", QUOTE>> \o expl \o <<QUOTE, "}">>

McqUnansweredReplies ==
  {TextReply(McqUnansweredText(ex), "mcq_raw",
             JObj(<<Prop(K_correctOption, JStr(<<>>)),
                    Prop(K_thoughts, JArr(<<JStr(<<"a">>)>>)),
                    Prop(K_explanation, JStr(ex))>>)) : ex \in {QuotedExpl, EchoExpl}}

\* the explanation key written without a colon after it, as in
\* {"correctOption": "B", "explanation"}, and without a quote after its
\* colon, as in {"correctOption": "B"} {"explanation": a}
McqBareKeyReplies ==
  {TextReply(<<"{">> \o Q_correctOption \o <<":", " ", QUOTE, "B", QUOTE, ",", " ">>
               \o Q_explanation \o <<"}">>, "mcq_raw", JUndefined),
   TextReply(<<"{">> \o Q_correctOption \o <<":", " ", QUOTE, "B", QUOTE, "}", " ", "{">>
               \o Q_explanation \o <<":", " ", "a", "}">>, "mcq_raw", JUndefined)}

FormatObjects(f) ==
  CASE f = "answer-mcq" -> McqObjects
    [] f = "extract" -> ExtractObjects
    [] OTHER -> SolutionObjects

\* the replies with a text that the model may give to a request of flow f
TextReplies(f) ==
  UNION {WaysToWrite(v) : v \in FormatObjects(f)}
    \cup {TextReply(Render(v), "json", v) : v \in OtherValues}
    \cup {TextReply(t, "free", JUndefined) : t \in FreeTexts}
    \cup (IF f = "answer-mcq"
          THEN McqRawReplies \cup McqUnansweredReplies \cup McqBareKeyReplies
          ELSE {})

\* a reply without a text block (content[0] is no text, or content is null)
NoTextReply ==
  [kind |-> "notext", text |-> <<>>, form |-> "none", src |-> JUndefined, status |-> 0]

\* the call failed: status is error.response?.status, 0 when it is undefined
FailedReply(status) ==
  [kind |-> "error", text |-> <<>>, form |-> "none", src |-> JUndefined,
   status |-> status]

NoReply ==
  [kind |-> "none", text |-> <<>>, form |-> "none", src |-> JUndefined, status |-> 0]

FailureStatuses == {0, 401, 429, 500}

(***************************************************************************)
(* One request to one of the endpoints that relay a model's text           *)
(***************************************************************************)
VARIABLES
  flow,      \* the endpoint of the request
  req,       \* the request body: ok says the field the handler checks is there
  apiKey,    \* process.env.ANTHROPIC_API_KEY is set
  pc,        \* where the handler is: received, awaiting, replied, done
  reply,     \* what the external model answered
  calls,     \* the number of calls made to the external model
  response,  \* the response sent
  sent,      \* the number of responses sent
  peer,      \* a second request in flight in the same process: its own
             \* flow, req, apiKey, pc, reply, calls, response and sent
  ocr,       \* the requests to the OCR endpoints, each with its route, its
             \* body, the place of its handler and the locals of the handler
  files,     \* the image files in the temp directory
  workers    \* the tesseract workers that are alive

vars == <<flow, req, apiKey, pc, reply, calls, response, sent, peer, ocr, files, workers>>

Flows ==
  {"answer-mcq", "extract", "generate", "debug", "claude-generate", "mistral-generate"}

\* the handlers that check a field of the request body before the call
ChecksBody == {"answer-mcq", "extract", "debug"}
\* the handlers that check the Anthropic key before the call
ChecksKey == {"answer-mcq", "extract", "generate"}

\* no second request is in flight
NoPeer ==
  [flow |-> "none", req |-> [ok |-> TRUE], apiKey |-> TRUE, pc |-> "none",
   reply |-> NoReply, calls |-> 0, response |-> NoResponse, sent |-> 0]

\* no request to an OCR endpoint is there, the temp directory is empty
OcrIdle == ocr = <<>> /\ files = {} /\ workers = {}

\* a request has arrived; what no step of its handler reads is left fixed
Init ==
  /\ flow \in Flows
  /\ req \in IF flow \in ChecksBody THEN [ok : BOOLEAN] ELSE {[ok |-> TRUE]}
  /\ apiKey \in IF flow \in ChecksKey THEN BOOLEAN ELSE {TRUE}
  /\ pc = "received"
  /\ reply = NoReply
  /\ calls = 0
  /\ response = NoResponse
  /\ sent = 0
  /\ peer = NoPeer
  /\ OcrIdle

\* a handler whose responses before the call lack the return: it sends the
\* response and goes on to call the model
RespondAndGoOn(r) ==
  /\ response' = r
  /\ sent' = sent + 1
  /\ pc' = IF pc = "received" THEN "awaiting" ELSE "done"
  /\ calls' = IF pc = "received" THEN calls + 1 ELSE calls
  /\ UNCHANGED <<flow, req, apiKey, reply, peer, ocr, files, workers>>

\* a handler that calls the model once more when it has a status 500 to send
RespondOrRetry(r) ==
  IF pc = "replied" /\ r.status = 500 /\ calls < 2
  THEN /\ calls' = calls + 1
       /\ pc' = "awaiting"
       /\ UNCHANGED <<flow, req, apiKey, reply, response, sent, peer, ocr, files, workers>>
  ELSE /\ response' = r
       /\ sent' = sent + 1
       /\ pc' = "done"
       /\ UNCHANGED <<flow, req, apiKey, reply, calls, peer, ocr, files, workers>>

\* res.json(...) or res.status(...).json(...), after which the handler returns
Respond(r) ==
  /\ response' = r
  /\ sent' = sent + 1
  /\ pc' = "done"
  /\ UNCHANGED <<flow, req, apiKey, reply, calls, peer, ocr, files, workers>>

\* await <client>.create(...): the handler waits for the external model
CallModel ==
  /\ calls' = calls + 1
  /\ pc' = "awaiting"
  /\ UNCHANGED <<flow, req, apiKey, reply, response, sent, peer, ocr, files, workers>>

\* the external model answers with a text
ModelReplies ==
  /\ pc = "awaiting"
  /\ \E r \in TextReplies(flow) : reply' = r
  /\ pc' = "replied"
  /\ UNCHANGED <<flow, req, apiKey, calls, response, sent, peer, ocr, files, workers>>

\* the external model answers, but with no text block
ModelRepliesWithoutText ==
  /\ pc = "awaiting"
  /\ reply' = NoTextReply
  /\ pc' = "replied"
  /\ UNCHANGED <<flow, req, apiKey, calls, response, sent, peer, ocr, files, workers>>

\* the call to the external model fails
ModelFails ==
  /\ pc = "awaiting"
  /\ \E s \in FailureStatuses : reply' = FailedReply(s)
  /\ pc' = "replied"
  /\ UNCHANGED <<flow, req, apiKey, calls, response, sent, peer, ocr, files, workers>>

\* a catch that tells only the status 401 from the other failures
StatusErrorResponseWithout429(status) ==
  IF status = 401
  THEN ErrorJson(401, "Please close this window and re-enter a valid Anthropic API key.",
                 "upstream_error")
  ELSE ErrorJson(500, UpstreamErrorMessage, "upstream_error")

\* the catch of /api/extract and /api/generate for a failed call
StatusErrorResponse(status) ==
  IF status = 401
  THEN ErrorJson(401, "Please close this window and re-enter a valid Anthropic API key.",
                 "upstream_error")
  ELSE IF status = 429
  THEN ErrorJson(429, "API Key rate limit exceeded. Please try again in a few minutes.",
                 "upstream_error")
  ELSE ErrorJson(500, UpstreamErrorMessage, "upstream_error")

\* a handler of /api/answer-mcq that creates the client and calls the model
\* without looking at the key
AnswerMcqReceiveKeyUnchecked ==
  /\ flow = "answer-mcq" /\ pc = "received"
  /\ IF ~req.ok THEN Respond(ErrorJson(400, "No question text provided", "bad_input"))
     ELSE CallModel

\* /api/answer-mcq up to the call of the model
AnswerMcqReceive ==
  /\ flow = "answer-mcq" /\ pc = "received"
  /\ IF ~req.ok THEN Respond(ErrorJson(400, "No question text provided", "bad_input"))
     ELSE IF ~apiKey
     THEN Respond(ErrorJson(500, "Anthropic API key is not configured", "no_key"))
     ELSE CallModel

\* /api/answer-mcq after the call
AnswerMcqResume ==
  /\ flow = "answer-mcq" /\ pc = "replied"
  /\ Respond(CASE reply.kind = "error" ->
                    ErrorDetailsJson(500, "MCQ answer generation failed",
                                     UpstreamErrorMessage, "upstream_error")
               [] reply.kind = "notext" -> AnswerMcqProcess(<<>>)
               [] OTHER -> AnswerMcqProcess(reply.text))

\* /api/extract up to the call of the model
ExtractReceive ==
  /\ flow = "extract" /\ pc = "received"
  /\ IF ~req.ok
     THEN Respond(ErrorJson(400,
            "Invalid request: imageDataList is required and must be an array",
            "bad_input"))
     ELSE IF ~apiKey
     THEN Respond(ErrorJson(500, "Anthropic API key not found in environment variables",
                            "no_key"))
     ELSE CallModel

\* /api/extract after the call
ExtractResume ==
  /\ flow = "extract" /\ pc = "replied"
  /\ Respond(CASE reply.kind = "error" -> StatusErrorResponse(reply.status)
               [] reply.kind = "notext" ->
                    ErrorJson(500, "No text content in Anthropic API response", "no_text")
               [] OTHER -> ExtractProcess(reply.text))

\* /api/generate up to the call of the model
GenerateReceive ==
  /\ flow = "generate" /\ pc = "received"
  /\ IF ~apiKey
     THEN Respond(ErrorJson(500, "Anthropic API key is not configured", "no_key"))
     ELSE CallModel

\* /api/generate after the call
GenerateResume ==
  /\ flow = "generate" /\ pc = "replied"
  /\ Respond(CASE reply.kind = "error" -> StatusErrorResponse(reply.status)
               [] reply.kind = "notext" -> GenerateProcess(<<>>)
               [] OTHER -> GenerateProcess(reply.text))

\* /api/debug up to the call of the model
DebugReceive ==
  /\ flow = "debug" /\ pc = "received"
  /\ IF ~req.ok THEN Respond(ErrorJson(400, "No problem text provided", "bad_input"))
     ELSE CallModel

\* /api/debug after the call
DebugResume ==
  /\ flow = "debug" /\ pc = "replied"
  /\ Respond(CASE reply.kind = "error" ->
                    ErrorDetailsJson(500, "Debug generation failed", UpstreamErrorMessage,
                                     "upstream_error")
               [] reply.kind = "notext" ->
                    ErrorDetailsJson(500, "Debug generation failed", TypeErrorMessage,
                                     "no_text")
               [] OTHER -> DebugProcess(reply.text))

\* /claude/api/generate up to the call of the model
ClaudeGenerateReceive ==
  /\ flow = "claude-generate" /\ pc = "received"
  /\ CallModel

\* /claude/api/generate after the call
ClaudeGenerateResume ==
  /\ flow = "claude-generate" /\ pc = "replied"
  /\ Respond(CASE reply.kind = "error" ->
                    ErrorDetailsJson(500, "Generation failed", UpstreamErrorMessage,
                                     "upstream_error")
               [] reply.kind = "notext" ->
                    ErrorDetailsJson(500, "Generation failed", TypeErrorMessage,
                                     "no_text")
               [] OTHER -> GenerateOptionalProcess(reply.text))

\* /mistral/api/generate up to the call of the model
MistralGenerateReceive ==
  /\ flow = "mistral-generate" /\ pc = "received"
  /\ CallModel

\* /mistral/api/generate after the call
MistralGenerateResume ==
  /\ flow = "mistral-generate" /\ pc = "replied"
  /\ Respond(CASE reply.kind = "error" ->
                    ErrorDetailsJson(500, "Generation failed", UpstreamErrorMessage,
                                     "upstream_error")
               [] reply.kind = "notext" ->
                    ErrorDetailsJson(500, "Generation failed", TypeErrorMessage,
                                     "no_text")
               [] OTHER -> GenerateOptionalProcess(reply.text))

Next ==
  \/ AnswerMcqReceive
  \/ AnswerMcqResume
  \/ ExtractReceive
  \/ ExtractResume
  \/ GenerateReceive
  \/ GenerateResume
  \/ DebugReceive
  \/ DebugResume
  \/ ClaudeGenerateReceive
  \/ ClaudeGenerateResume
  \/ MistralGenerateReceive
  \/ MistralGenerateResume
  \/ ModelReplies
  \/ ModelRepliesWithoutText
  \/ ModelFails

Spec == Init /\ [][Next]_vars

(***************************************************************************)
(* Two requests handled by the one process.  A handler runs from one await *)
(* to the next without interruption; at an await the event loop may run    *)
(* the handler of the other request.  The variables flow .. sent are those *)
(* of the request whose handler has the turn, peer holds the other one.    *)
(***************************************************************************)
\* the handlers taken for the two requests
ConcFlows == {"answer-mcq", "debug"}

\* the request whose handler has the turn
Turn ==
  [flow |-> flow, req |-> req, apiKey |-> apiKey, pc |-> pc, reply |-> reply,
   calls |-> calls, response |-> response, sent |-> sent]

\* a change of turn in a process that keeps the response in one place for
\* all handlers: the request that loses the turn leaves its response behind
SwitchLeavingResponse ==
  /\ peer.pc # "none"
  /\ flow' = peer.flow
  /\ req' = peer.req
  /\ apiKey' = peer.apiKey
  /\ pc' = peer.pc
  /\ reply' = peer.reply
  /\ calls' = peer.calls
  /\ sent' = peer.sent
  /\ peer' = [Turn EXCEPT !.response = peer.response]
  /\ UNCHANGED <<response, ocr, files, workers>>

\* the event loop gives the turn to the handler of the other request; each
\* request keeps its own req, res and locals
Switch ==
  /\ peer.pc # "none"
  /\ flow' = peer.flow
  /\ req' = peer.req
  /\ apiKey' = peer.apiKey
  /\ pc' = peer.pc
  /\ reply' = peer.reply
  /\ calls' = peer.calls
  /\ response' = peer.response
  /\ sent' = peer.sent
  /\ peer' = Turn
  /\ UNCHANGED <<ocr, files, workers>>

\* the texts the external model gives in the runs of two requests
ConcReplies(f) ==
  IF f = "answer-mcq"
  THEN WaysToWrite(JObj(<<Prop(K_correctOption, JStr(<<"B">>)),
                          Prop(K_thoughts, JArr(<<JStr(<<"a">>)>>)),
                          Prop(K_explanation, JStr(<<"e">>))>>))
         \cup {TextReply(Render(JObj(<<>>)), "json", JObj(<<>>))}
         \cup {McqRawReply(<<<<"a">>>>, ex) : ex \in {<<"a">>, QuotedExpl, EchoExpl}}
         \cup McqUnansweredReplies
  ELSE WaysToWrite(JObj(<<Prop(K_code, JStr(<<"x">>)),
                          Prop(K_thoughts, JArr(<<JStr(<<"a">>)>>)),
                          Prop(K_time_complexity, JStr(BigO)),
                          Prop(K_space_complexity, JStr(<<>>))>>))
         \cup {TextReply(Render(JObj(<<>>)), "json", JObj(<<>>)),
               TextReply(Prose, "free", JUndefined)}

\* the external model answers the request that has the turn with a text
ConcModelReplies ==
  /\ pc = "awaiting"
  /\ \E r \in ConcReplies(flow) : reply' = r
  /\ pc' = "replied"
  /\ UNCHANGED <<flow, req, apiKey, calls, response, sent, peer, ocr, files, workers>>

\* two requests have arrived
ConcInit ==
  /\ flow \in ConcFlows
  /\ req \in [ok : BOOLEAN]
  /\ apiKey \in IF flow \in ChecksKey THEN BOOLEAN ELSE {TRUE}
  /\ pc = "received"
  /\ reply = NoReply
  /\ calls = 0
  /\ response = NoResponse
  /\ sent = 0
  /\ peer \in {p \in [flow : ConcFlows, req : [ok : BOOLEAN], apiKey : BOOLEAN,
                        pc : {"received"}, reply : {NoReply}, calls : {0},
                        response : {NoResponse}, sent : {0}] :
                  p.flow \in ChecksKey \/ p.apiKey}
  /\ OcrIdle

ConcNext ==
  \/ AnswerMcqReceive
  \/ AnswerMcqResume
  \/ DebugReceive
  \/ DebugResume
  \/ ConcModelReplies
  \/ ModelRepliesWithoutText
  \/ ModelFails
  \/ Switch

ConcurrentSpec == ConcInit /\ [][ConcNext]_vars

(***************************************************************************)
(* The OCR endpoints /api/extract-mcq and /mistral/api/extract.  Their     *)
(* handlers are the same but for the language of the worker and the key of *)
(* the record.  A file and a worker are named by the request and the image *)
(* they were made for: the 8 random bytes of a file name are taken to be   *)
(* different from those of every other file.                               *)
(***************************************************************************)
MaxOcrRequests == 2
MaxImages == 2

\* the variables of the handlers that relay a model's text
relay == <<flow, req, apiKey, pc, reply, calls, response, sent, peer>>

\* a finally block that empties the temp directory
FinishClearingDirectory(r, q, status, dir) ==
  /\ files' = {}
  /\ ocr' = [ocr EXCEPT ![r] = [q EXCEPT !.pc = "done", !.sent = @ + 1,
                                          !.status = status]]

\* res.json(...) or res.status(...).json(...) of the request r, whose handler
\* state is q, and then the finally block: each path of tempFiles is
\* unlinked, and an unlink that throws (kept) is logged and leaves its file;
\* dir is the temp directory as the step found or made it
Finish(r, q, status, dir) ==
  \E kept \in SUBSET q.tempFiles :
    /\ files' = dir \ (q.tempFiles \ kept)
    /\ ocr' = [ocr EXCEPT ![r] = [q EXCEPT !.pc = "done", !.sent = @ + 1,
                                            !.status = status]]

\* the loop of the handler at image k: after the last image the record is
\* sent; else saveBase64ImageToTemp(imageData) writes the file, its path is
\* pushed and createWorker is awaited.  writeFileSync may throw without
\* having made the file, or having made it (the open succeeded, the write
\* did not): either way the path is not pushed and the catch answers 500
Proceed(r, q, k) ==
  IF k > q.images THEN Finish(r, q, 200, files)
  ELSE \/ /\ files' = files \cup {[owner |-> r, n |-> k]}
          /\ ocr' = [ocr EXCEPT ![r] =
                       [q EXCEPT !.k = k, !.pc = "creating",
                                 !.tempFiles = @ \cup {[owner |-> r, n |-> k]}]]
       \/ Finish(r, [q EXCEPT !.k = k], 500, files)
       \/ Finish(r, [q EXCEPT !.k = k], 500, files \cup {[owner |-> r, n |-> k]})

\* the handler up to its first await: the check of imageDataList, then the loop
OcrReceive(r) ==
  /\ ocr[r].pc = "received"
  /\ IF ~ocr[r].valid THEN Finish(r, ocr[r], 400, files)
     ELSE Proceed(r, ocr[r], 1)
  /\ UNCHANGED <<workers, relay>>

\* await createWorker(...) returns the worker; worker.recognize is awaited
WorkerCreated(r) ==
  /\ ocr[r].pc = "creating"
  /\ workers' = workers \cup {[owner |-> r, n |-> ocr[r].k]}
  /\ ocr' = [ocr EXCEPT ![r].pc = "recognizing", ![r].worker = ocr[r].k]
  /\ UNCHANGED <<files, relay>>

\* await createWorker(...) rejects: the catch answers 500
WorkerCreationFails(r) ==
  /\ ocr[r].pc = "creating"
  /\ Finish(r, ocr[r], 500, files)
  /\ UNCHANGED <<workers, relay>>

\* await worker.recognize(imagePath) returns; worker.terminate() is awaited
Recognized(r) ==
  /\ ocr[r].pc = "recognizing"
  /\ ocr' = [ocr EXCEPT ![r].pc = "terminating"]
  /\ UNCHANGED <<files, workers, relay>>

\* await worker.recognize(imagePath) rejects: the catch answers 500, and
\* worker.terminate() is not reached
RecognitionFails(r) ==
  /\ ocr[r].pc = "recognizing"
  /\ Finish(r, ocr[r], 500, files)
  /\ UNCHANGED <<workers, relay>>

\* await worker.terminate() returns; the loop goes on with the next image
Terminated(r) ==
  /\ ocr[r].pc = "terminating"
  /\ workers' = workers \ {[owner |-> r, n |-> ocr[r].worker]}
  /\ Proceed(r, [ocr[r] EXCEPT !.worker = 0], ocr[r].k + 1)
  /\ UNCHANGED relay

\* one request to an endpoint that relays a model's text, or requests to the
\* OCR endpoints with up to MaxImages images each
ServerInit ==
  \/ Init
  \/ /\ flow = "none" /\ req = [ok |-> TRUE] /\ apiKey = TRUE /\ pc = "none"
     /\ reply = NoReply /\ calls = 0 /\ response = NoResponse /\ sent = 0
     /\ peer = NoPeer
     /\ ocr \in [1..MaxOcrRequests ->
                   {q \in [route : {"extract-mcq", "mistral-extract"},
                           valid : BOOLEAN, images : 0..MaxImages,
                           pc : {"received"}, k : {0}, tempFiles : {{}},
                           worker : {0}, sent : {0}, status : {0}] :
                      q.valid \/ q.images = 0}]
     /\ files = {}
     /\ workers = {}

ServerNext ==
  \/ Next
  \/ \E r \in DOMAIN ocr : OcrReceive(r)
  \/ \E r \in DOMAIN ocr : WorkerCreated(r)
  \/ \E r \in DOMAIN ocr : WorkerCreationFails(r)
  \/ \E r \in DOMAIN ocr : Recognized(r)
  \/ \E r \in DOMAIN ocr : RecognitionFails(r)
  \/ \E r \in DOMAIN ocr : Terminated(r)

ServerSpec == ServerInit /\ [][ServerNext]_vars


(***************************************************************************)
(* The contracts of spec.md and the properties stated about the handlers   *)
(***************************************************************************)
\* the handler has answered a request whose call of the model gave a text
AnsweredText == pc = "done" /\ reply.kind = "text"

\* the handler has answered such a request with a record, not with an error
ReturnedRecord == AnsweredText /\ response.status = 200

\* the code-generation flows and the debug flow
CodeFlows == {"generate", "debug", "claude-generate", "mistral-generate"}

\* the required fields of the record of flow f
RequiredFields(f) ==
  CASE f = "answer-mcq" -> {K_correctOption, K_thoughts, K_explanation}
    [] f = "extract" -> {K_problem_statement, K_test_cases}
    [] OTHER -> {K_code, K_thoughts, K_time_complexity, K_space_complexity}

\* the sequence-typed field of the record of flow f
SequenceField(f) == IF f = "extract" THEN K_test_cases ELSE K_thoughts

IsStringSeq(v) == v.t = "array" /\ \A i \in 1..Len(v.a) : v.a[i].t = "string"

\* the value of field k has the kind the contract gives the field
RightKind(k, val) ==
  IF k = K_thoughts THEN IsStringSeq(val)
  ELSE IF k = K_test_cases THEN val.t = "array"
  ELSE val.t = "string"

\* v is an object that has every field of the contract of flow f, each of
\* the right kind
MatchesContract(f, v) ==
  v.t = "object" /\ \A k \in RequiredFields(f) : RightKind(k, Get(v, k))

\* a and b agree on every field of the contract of flow f
SameFields(f, a, b) == \A k \in RequiredFields(f) : Get(a, k) = Get(b, k)

\* the character c occurs in the text
Contains(text, c) == \E i \in 1..Len(text) : text[i] = c

\* the validation or default-filling step of flow f, applied to v
ValidationStep(f, v) ==
  CASE f = "debug" -> EnsureRequiredFields(v)
    [] f = "generate" -> SolutionResponse(v).v
    [] f = "extract" -> ExtractResponse(v).v
    [] OTHER -> SolutionResponseOptional(v).v

\* the key of time_complexity as it stands in a JSON text
Q_time_complexity == <<QUOTE>> \o K_time_complexity \o <<QUOTE>>

\* C1: every handler answers a request whose model call gave a text with a
\* record and never with an error response, whatever the text is
C1_TextNeverAnError == AnsweredText => response.status = 200

\* C1, the case that fails: /api/generate answers prose with status 500
C1_GenerateAnswersError ==
  /\ AnsweredText /\ flow = "generate"
  /\ reply.text = Prose
  /\ response.status = 500 /\ response.via = "parse_error"

\* C2: every record returned after a successful model call has all the
\* required fields of its contract, whatever value the text parses to
C2_AllRequiredFields ==
  ReturnedRecord =>
    /\ response.body.t = "object"
    /\ \A k \in RequiredFields(flow) : HasKey(response.body.o, k)

\* C2, the case that fails: /api/answer-mcq returns the empty object it parsed
C2_McqReturnsEmptyObject ==
  /\ ReturnedRecord /\ flow = "answer-mcq"
  /\ reply.text = <<"{", "}">>
  /\ response.body = JObj(<<>>)

\* C3: in every record returned the sequence-typed field is a sequence,
\* never null and never absent
C3_SequenceNeverNull ==
  ReturnedRecord => Get(response.body, SequenceField(flow)).t = "array"

\* C3, the case that fails: /api/answer-mcq returns thoughts: null as parsed
C3_McqReturnsNullThoughts ==
  /\ ReturnedRecord /\ flow = "answer-mcq"
  /\ reply.form = "json"
  /\ Get(reply.src, K_thoughts) = JNull
  /\ Get(reply.src, K_correctOption) = JStr(<<"B">>)
  /\ Get(response.body, K_thoughts) = JNull

\* C4: no record returned by a code-generation or debug flow holds a value
\* of the wrong kind in code, thoughts, time_complexity or space_complexity
\* (a field that is missing is the subject of C2)
C4_NoWrongKind ==
  (ReturnedRecord /\ flow \in CodeFlows) =>
    \A k \in RequiredFields(flow) :
      Get(response.body, k) = JUndefined \/ RightKind(k, Get(response.body, k))

\* C4, the case that fails: /api/debug returns the number it finds in code
C4_DebugReturnsNumberAsCode ==
  /\ ReturnedRecord /\ flow = "debug"
  /\ Get(reply.src, K_code) = Five
  /\ Get(response.body, K_code) = Five

\* C5: a text that is a well-formed JSON object matching the flow's contract
\* gives a record whose every field equals the source value
C5_RoundTrip ==
  (AnsweredText /\ reply.form = "json" /\ MatchesContract(flow, reply.src)) =>
    response.status = 200 /\ SameFields(flow, response.body, reply.src)

\* C5, the case that fails: /api/debug replaces an empty time_complexity
C5_DebugReplacesEmptyString ==
  /\ ReturnedRecord /\ flow = "debug"
  /\ reply.form = "json" /\ MatchesContract(flow, reply.src)
  /\ Get(reply.src, K_time_complexity) = JStr(<<>>)
  /\ Get(response.body, K_time_complexity) = JStr(NotSpecified)

\* C6: the validation step returns a record that satisfies the contract
\* unchanged, and applied to its own result it changes nothing
C6_ValidationIdempotent ==
  (AnsweredText /\ flow # "answer-mcq" /\ response.via \in {"parsed", "validated"}) =>
    /\ MatchesContract(flow, ParseJsonIn(reply.text).v) =>
         SameFields(flow, response.body, ParseJsonIn(reply.text).v)
    /\ SameFields(flow, ValidationStep(flow, response.body), response.body)

\* C6, the case that fails: the step of /api/debug changes a valid record
C6_DebugStepChangesValidRecord ==
  /\ AnsweredText /\ flow = "debug" /\ response.via = "parsed"
  /\ MatchesContract(flow, ParseJsonIn(reply.text).v)
  /\ Get(ParseJsonIn(reply.text).v, K_space_complexity) = JStr(<<>>)
  /\ Get(response.body, K_space_complexity) = JStr(NotSpecified)

\* C7: in every flow, an object matching the contract, wrapped in a json
\* fence after a line of prose, gives a record with exactly its fields
C7_FenceTolerance ==
  (AnsweredText /\ reply.form = "fenced" /\ MatchesContract(flow, reply.src)) =>
    response.status = 200 /\ SameFields(flow, response.body, reply.src)

\* C7, the case that fails: /api/generate answers the fenced object with 500
C7_GenerateRejectsFence ==
  /\ AnsweredText /\ flow = "generate"
  /\ reply.form = "fenced"
  /\ reply.src = JObj(<<Prop(K_code, JStr(<<"x">>)),
                        Prop(K_thoughts, JArr(<<JStr(<<"a">>)>>)),
                        Prop(K_time_complexity, JStr(BigO)),
                        Prop(K_space_complexity, JStr(BigO))>>)
  /\ response.status = 500

\* the MCQ text is the object of the prompt, invalid only because of the
\* double quotes written unescaped in its explanation
OnlyExplanationQuotesUnescaped ==
  /\ flow = "answer-mcq" /\ reply.form = "mcq_raw"
  /\ Contains(Get(reply.src, K_explanation).s, QUOTE)
  /\ ~Contains(Get(reply.src, K_explanation).s, BSLASH)
  /\ \A i \in 1..Len(Get(reply.src, K_thoughts).a) :
       /\ ~Contains(Get(reply.src, K_thoughts).a[i].s, QUOTE)
       /\ ~Contains(Get(reply.src, K_thoughts).a[i].s, BSLASH)

\* C8: when the MCQ text is invalid only because its explanation, the last
\* field, holds unescaped double quotes, the explanation returned is the
\* full explanation of the source
C8_ExplanationRecoveredInFull ==
  (AnsweredText /\ response.via = "recovered" /\ OnlyExplanationQuotesUnescaped) =>
    Get(response.body, K_explanation) = Get(reply.src, K_explanation)

\* C8, the case that fails: the explanation is cut at a quote before a brace
C8_ExplanationCutAtQuoteBrace ==
  /\ AnsweredText /\ response.via = "recovered" /\ OnlyExplanationQuotesUnescaped
  /\ Get(reply.src, K_explanation) = JStr(<<"a", QUOTE, "}">>)
  /\ Get(response.body, K_explanation) = JStr(<<"a">>)

\* field recovery runs on a thoughts array of quoted strings, each holding
\* a comma and no quote
ThoughtsWithCommas ==
  /\ flow = "answer-mcq" /\ reply.form = "mcq_raw"
  /\ \A i \in 1..Len(Get(reply.src, K_thoughts).a) :
       /\ Contains(Get(reply.src, K_thoughts).a[i].s, ",")
       /\ ~Contains(Get(reply.src, K_thoughts).a[i].s, QUOTE)

\* C9: field recovery on a thoughts array of n quoted strings that hold
\* commas gives exactly the n source elements
C9_ThoughtsNotSplitAtInnerCommas ==
  (AnsweredText /\ response.via = "recovered" /\ ThoughtsWithCommas) =>
    Get(response.body, K_thoughts) = Get(reply.src, K_thoughts)

\* C9, the case that fails: an element that ends with a comma is split
C9_ElementSplitAtItsComma ==
  /\ AnsweredText /\ response.via = "recovered" /\ ThoughtsWithCommas
  /\ Get(reply.src, K_thoughts) = JArr(<<JStr(<<"a", ",">>)>>)
  /\ Get(response.body, K_thoughts) = JArr(<<JStr(<<QUOTE, "a">>), JStr(<<QUOTE>>)>>)

\* C10: when the text has no time_complexity key, the record a
\* code-generation or debug flow returns has the field time_complexity with
\* the value "Not specified"
C10_TimeComplexitySentinel ==
  (ReturnedRecord /\ flow \in CodeFlows
     /\ IndexFrom(reply.text, Q_time_complexity, 1) = 0) =>
    Get(response.body, K_time_complexity) = JStr(NotSpecified)

\* C10, the case that fails: /claude/api/generate returns no time_complexity
C10_ClaudeOmitsTimeComplexity ==
  /\ ReturnedRecord /\ flow = "claude-generate"
  /\ reply.text = <<"{", "}">>
  /\ ~HasKey(response.body.o, K_time_complexity)


\* the text of the reply is JSON for the handler's parser, and the schema of
\* the flow rejects the value parsed (the flows without a schema have no such text)
ParsesButFailsSchema ==
  CASE flow = "generate" ->
         /\ JSONParse(reply.text).ok
         /\ ~SolutionResponse(JSONParse(reply.text).v).ok
    [] flow = "extract" ->
         /\ BraceMatch(reply.text).found
         /\ JSONParse(BraceMatch(reply.text).text).ok
         /\ ~ExtractResponse(JSONParse(BraceMatch(reply.text).text).v).ok
    [] flow \in {"claude-generate", "mistral-generate"} ->
         /\ ParseJsonIn(reply.text).ok
         /\ ~SolutionResponseOptional(ParseJsonIn(reply.text).v).ok
    [] OTHER -> FALSE

\* C11: a model text that parses as JSON and fails the schema validation is
\* answered with a record (status 200), never with an error response
C11_ValidationFailureRecovered ==
  (AnsweredText /\ ParsesButFailsSchema) => response.status = 200

\* /api/generate answers 500 to a text that parses and fails SolutionResponse
C11_GenerateSurfacesValidationError ==
  /\ AnsweredText /\ flow = "generate" /\ ParsesButFailsSchema
  /\ response.status = 500
  /\ response.body = JObj(<<Prop(K_error, JStr(<<ZodErrorMessage>>))>>)

\* /claude/api/generate answers the fallback record to such a text
C11_ClaudeFallsBack ==
  /\ AnsweredText /\ flow = "claude-generate" /\ ParsesButFailsSchema
  /\ response.status = 200


\* the states of spec.md's normalizer that a handler of flow f went through
\* when it answered by the path via: the strict parse is the handler's
\* JSON.parse, VALIDATED is a passed schema or the required-field step of
\* /api/debug, RECOVERY_ATTEMPTED the manual extraction or the fallback record,
\* and a handler that answers an error never reaches RETURNED
NormalizerPath(f, via) ==
  CASE via = "validated" ->
         <<"AWAITING_MODEL_TEXT", "STRUCTURED_PARSE_ATTEMPTED", "VALIDATED", "RETURNED">>
    [] via = "parsed" /\ f = "debug" ->
         <<"AWAITING_MODEL_TEXT", "STRUCTURED_PARSE_ATTEMPTED", "VALIDATED", "RETURNED">>
    [] via = "parsed" /\ f # "debug" ->
         <<"AWAITING_MODEL_TEXT", "STRUCTURED_PARSE_ATTEMPTED", "RETURNED">>
    [] via \in {"recovered", "fallback"} ->
         <<"AWAITING_MODEL_TEXT", "STRUCTURED_PARSE_ATTEMPTED", "RECOVERY_ATTEMPTED",
           "RETURNED">>
    [] via \in {"parse_error", "validation_error"} ->
         <<"AWAITING_MODEL_TEXT", "STRUCTURED_PARSE_ATTEMPTED", "ERROR">>
    [] OTHER -> <<"AWAITING_MODEL_TEXT", "ERROR">>

\* C12: a request whose model call gave a text goes through AWAITING_MODEL_TEXT,
\* STRUCTURED_PARSE_ATTEMPTED, exactly one of VALIDATED and RECOVERY_ATTEMPTED,
\* and RETURNED, in this order and each once; a parsed object is returned only
\* after VALIDATED
C12_NormalizerStateMachine ==
  AnsweredText =>
    NormalizerPath(flow, response.via) \in
      {<<"AWAITING_MODEL_TEXT", "STRUCTURED_PARSE_ATTEMPTED", "VALIDATED", "RETURNED">>,
       <<"AWAITING_MODEL_TEXT", "STRUCTURED_PARSE_ATTEMPTED", "RECOVERY_ATTEMPTED",
         "RETURNED">>}

\* /api/answer-mcq returns the object of its direct parse with no validation
C12_McqReturnsParsedUnvalidated ==
  /\ AnsweredText /\ flow = "answer-mcq"
  /\ JSONParse(Trim(StripFences(reply.text))).ok
  /\ response = Json(JSONParse(Trim(StripFences(reply.text))).v, "parsed")
  /\ ~MatchesContract(flow, response.body)
  /\ NormalizerPath(flow, response.via) =
       <<"AWAITING_MODEL_TEXT", "STRUCTURED_PARSE_ATTEMPTED", "RETURNED">>

\* in /api/answer-mcq and /api/debug every other text ends in RETURNED by one
\* of the two paths of the claim
C12_OtherPathsConform ==
  (AnsweredText /\ flow \in {"answer-mcq", "debug"}
     /\ ~(flow = "answer-mcq" /\ response.via = "parsed")) =>
    NormalizerPath(flow, response.via) \in
      {<<"AWAITING_MODEL_TEXT", "STRUCTURED_PARSE_ATTEMPTED", "VALIDATED", "RETURNED">>,
       <<"AWAITING_MODEL_TEXT", "STRUCTURED_PARSE_ATTEMPTED", "RECOVERY_ATTEMPTED",
         "RETURNED">>}


\* C13: in every record returned by a code-generation or debug flow, and in
\* every record of the MCQ field recovery, a thoughts array has at least one
\* element
C13_ThoughtsNeverEmpty ==
  (ReturnedRecord /\ (flow \in CodeFlows \/ response.via = "recovered")
     /\ IsArray(Get(response.body, K_thoughts))) =>
    Len(Get(response.body, K_thoughts).a) >= 1

\* /api/debug returns the empty thoughts array of the model text as it is
C13_DebugReturnsEmptyThoughts ==
  /\ ReturnedRecord /\ flow = "debug" /\ response.via = "parsed"
  /\ reply.src.t = "object" /\ Get(reply.src, K_thoughts) = JArr(<<>>)
  /\ Get(response.body, K_thoughts) = JArr(<<>>)

\* the MCQ field recovery gives no thought for an empty array span
C13_RecoveryGivesEmptyThoughts ==
  /\ ReturnedRecord /\ flow = "answer-mcq" /\ response.via = "recovered"
  /\ ThoughtsMatch(Trim(StripFences(reply.text))).found
  /\ ThoughtsMatch(Trim(StripFences(reply.text))).text = <<>>
  /\ Get(response.body, K_thoughts) = JArr(<<>>)


\* C14: in /api/extract and /api/generate a failed model call is answered with
\* status 401 when the call failed with 401, with 429 when it failed with 429
\* and with 500 otherwise; a 401 or a 429 is sent only for a call that failed
\* with that status
C14_StatusFollowsUpstreamFailure ==
  (pc = "done" /\ flow \in {"extract", "generate"}) =>
    /\ reply.kind = "error" =>
         response.status = (IF reply.status \in {401, 429} THEN reply.status ELSE 500)
    /\ response.status \in {401, 429} =>
         (reply.kind = "error" /\ reply.status = response.status)

\* /api/generate has answered 429 to a call that failed with status 429
C14_GenerateAnswers429 ==
  /\ pc = "done" /\ flow = "generate"
  /\ reply.kind = "error" /\ reply.status = 429
  /\ response.status = 429


\* C16: a request makes at most one call to the external model: once the call
\* has been answered, by a failure or by a text, the count of calls stays 1,
\* whatever the handler then does with the answer
C16_AtMostOneModelCall ==
  /\ calls <= 1
  /\ pc \in {"awaiting", "replied"} => calls = 1
  /\ (pc = "done" /\ reply.kind # "none") => calls = 1

\* a handler has answered a failed call, or a text that did not parse or
\* validate, after one call
C16_AnsweredFailureAfterOneCall ==
  /\ pc = "done" /\ calls = 1
  /\ response.via \in {"upstream_error", "parse_error", "validation_error", "fallback"}


\* what the handler of flow f answers to the reply r when no other request is
\* in flight
Alone(f, r) ==
  IF f = "answer-mcq" THEN AnswerMcqProcess(r.text) ELSE DebugProcess(r.text)

\* C15: however the handlers of two requests are interleaved, the record
\* returned for a request is the one its own model text yields when the
\* request is handled alone, and two requests of the same flow with the same
\* model text get the same record
C15_RecordDependsOnOwnText ==
  /\ (pc = "done" /\ reply.kind = "text") => response = Alone(flow, reply)
  /\ (peer.pc = "done" /\ peer.reply.kind = "text") =>
       peer.response = Alone(peer.flow, peer.reply)
  /\ (/\ pc = "done" /\ reply.kind = "text"
      /\ peer.pc = "done" /\ peer.reply.kind = "text"
      /\ flow = peer.flow /\ reply.text = peer.reply.text) =>
       response = peer.response

\* two requests of /api/answer-mcq with different texts have both been
\* answered, each with the record recovered from its own text
C15_BothAnsweredFromOwnText ==
  /\ pc = "done" /\ reply.kind = "text" /\ response.via = "recovered"
  /\ peer.pc = "done" /\ peer.reply.kind = "text" /\ peer.response.via = "recovered"
  /\ flow = "answer-mcq" /\ peer.flow = "answer-mcq"
  /\ reply.text # peer.reply.text
  /\ response.body # peer.response.body
  /\ sent = 1 /\ peer.sent = 1


\* the opening of the explanation field as the prompt's format writes it
ExplanationOpening == Q_explanation \o <<":", " ", QUOTE>>

\* the position of the last character before the value of the explanation
\* field of the text t, 0 when t has no such field
ExplanationValueStart(t) ==
  IF IndexFrom(t, ExplanationOpening, 1) = 0 THEN 0
  ELSE IndexFrom(t, ExplanationOpening, 1) + Len(ExplanationOpening) - 1

\* the texts a and b differ only inside the value of the explanation field:
\* they are the same up to its opening quote, and both close the value and
\* the object right after it
DifferOnlyInExplanation(a, b) ==
  /\ ExplanationValueStart(a) > 0
  /\ ExplanationValueStart(b) = ExplanationValueStart(a)
  /\ SubSeq(a, 1, ExplanationValueStart(a)) = SubSeq(b, 1, ExplanationValueStart(a))
  /\ StartsWithAt(a, Len(a) - 1, <<QUOTE, "}">>)
  /\ StartsWithAt(b, Len(b) - 1, <<QUOTE, "}">>)
  /\ a # b

\* C20: when two unparseable model texts of /api/answer-mcq differ only inside
\* the value of the explanation field, the correctOption and the thoughts
\* recovered from the one are those recovered from the other
C20_ExplanationDoesNotLeak ==
  (/\ flow = "answer-mcq" /\ peer.flow = "answer-mcq"
   /\ pc = "done" /\ reply.kind = "text" /\ response.via = "recovered"
   /\ peer.pc = "done" /\ peer.reply.kind = "text" /\ peer.response.via = "recovered"
   /\ DifferOnlyInExplanation(reply.text, peer.reply.text)) =>
    /\ Get(response.body, K_correctOption) = Get(peer.response.body, K_correctOption)
    /\ Get(response.body, K_thoughts) = Get(peer.response.body, K_thoughts)

\* a pair written inside the explanation is recovered as the correctOption
\* that the text itself leaves empty
C20_EchoedPairRecoveredAsOption ==
  /\ flow = "answer-mcq" /\ peer.flow = "answer-mcq"
  /\ pc = "done" /\ peer.pc = "done"
  /\ reply.text = McqUnansweredText(QuotedExpl)
  /\ peer.reply.text = McqUnansweredText(EchoExpl)
  /\ DifferOnlyInExplanation(reply.text, peer.reply.text)
  /\ Get(response.body, K_correctOption) = JStr(NotSpecified)
  /\ Get(peer.response.body, K_correctOption) = JStr(<<"Z">>)

\* with the correctOption pair written before the explanation, the texts that
\* differ only in the explanation give the same correctOption and thoughts
C20_NoLeakWhenOptionGiven ==
  (/\ flow = "answer-mcq" /\ peer.flow = "answer-mcq"
   /\ pc = "done" /\ reply.kind = "text" /\ response.via = "recovered"
   /\ peer.pc = "done" /\ peer.reply.kind = "text" /\ peer.response.via = "recovered"
   /\ DifferOnlyInExplanation(reply.text, peer.reply.text)
   /\ reply.src.t = "object" /\ Get(reply.src, K_correctOption) = JStr(<<"B">>)) =>
    /\ Get(response.body, K_correctOption) = Get(peer.response.body, K_correctOption)
    /\ Get(response.body, K_thoughts) = Get(peer.response.body, K_thoughts)


\* the span from the first "{" to the last "}" of the text t exists and is no
\* JSON, while t as a whole is
SpanFailsWholeParses(t) ==
  /\ BraceMatch(t).found
  /\ ~JSONParse(BraceMatch(t).text).ok
  /\ JSONParse(t).ok

\* what the handler of flow f answers when it goes on with the value parsed
\* from the entire text t
UsingWholeParse(f, t) ==
  IF f = "debug"
  THEN IF ReadThrows(JSONParse(t).v)
       THEN Json(FallbackResponse(t, AutoExtractedDebug), "fallback")
       ELSE Json(EnsureRequiredFields(JSONParse(t).v), "parsed")
  ELSE IF SolutionResponseOptional(JSONParse(t).v).ok
       THEN Json(SolutionResponseOptional(JSONParse(t).v).v, "validated")
       ELSE Json(FallbackResponse(t, AutoExtracted), "fallback")

\* C17: in /api/debug, /claude/api/generate and /mistral/api/generate, when
\* the span from the first "{" to the last "}" is no valid JSON and the entire
\* text is, the handler goes on with the value parsed from the entire text
\* and not with the fallback record
C17_WholeTextParsedAfterSpan ==
  (AnsweredText /\ flow \in {"debug", "claude-generate", "mistral-generate"}
     /\ SpanFailsWholeParses(reply.text)) =>
    response = UsingWholeParse(flow, reply.text)

\* /api/debug answers the fallback record to a text that is JSON as a whole
C17_DebugFallsBackOnParseableText ==
  /\ AnsweredText /\ flow = "debug"
  /\ SpanFailsWholeParses(reply.text)
  /\ response = Json(FallbackResponse(reply.text, AutoExtractedDebug), "fallback")
  /\ UsingWholeParse(flow, reply.text).via = "parsed"


\* the text that follows the opening quote of the explanation value in the
\* cleaned text t (t has the "explanation" key)
AfterOpeningQuote(t) ==
  From(t, IndexFrom(t, <<QUOTE>>,
                    IndexFrom(t, <<":">>, IndexFrom(t, Q_explanation, 1)) + 1) + 1)

\* the terminating quotes of r: the double quotes that are not preceded by a
\* backslash and are followed, after optional whitespace, by a closing brace
TerminatingQuotes(r) == {i \in 1..Len(r) : IsEndQuote(r, i)}

\* the greatest element of the non-empty set of numbers S
Greatest(S) == CHOOSE m \in S : \A n \in S : n <= m

\* the explanation that ends at the last terminating quote of the cleaned text
\* t, with \n and \" unescaped; the sentinel when t has none
ExplanationToLastQuote(t) ==
  IF IndexFrom(t, Q_explanation, 1) = 0 \/ TerminatingQuotes(AfterOpeningQuote(t)) = {}
  THEN NoExplanation
  ELSE ReplaceAll(
         ReplaceAll(SubSeq(AfterOpeningQuote(t), 1,
                           Greatest(TerminatingQuotes(AfterOpeningQuote(t))) - 1),
                    <<BSLASH, "n">>, <<NL>>, 1),
         <<BSLASH, QUOTE>>, <<QUOTE>>, 1)

\* C18: the explanation of the MCQ field recovery is the text between the
\* opening quote and the last terminating quote before the object closes, with
\* \n and \" unescaped, also when the explanation itself holds a quote followed
\* by a closing brace; it is "No explanation provided" when the text has no
\* terminating quote
C18_ExplanationEndsAtLastQuote ==
  (AnsweredText /\ response.via = "recovered") =>
    Get(response.body, K_explanation) =
      JStr(ExplanationToLastQuote(Trim(StripFences(reply.text))))

\* the explanation returned ends at the first of two terminating quotes
C18_ExplanationEndsAtFirstQuote ==
  /\ AnsweredText /\ response.via = "recovered"
  /\ TerminatingQuotes(AfterOpeningQuote(Trim(StripFences(reply.text)))) = {2, 4}
  /\ ExplanationToLastQuote(Trim(StripFences(reply.text))) = <<"a", QUOTE, "}">>
  /\ Get(response.body, K_explanation) = JStr(<<"a">>)

\* with at most one terminating quote the explanation returned is the one of
\* the claim, the sentinel included
C18_OneTerminatingQuote ==
  (AnsweredText /\ response.via = "recovered"
     /\ (IndexFrom(Trim(StripFences(reply.text)), Q_explanation, 1) > 0 =>
           Cardinality(TerminatingQuotes(
             AfterOpeningQuote(Trim(StripFences(reply.text))))) <= 1)) =>
    Get(response.body, K_explanation) =
      JStr(ExplanationToLastQuote(Trim(StripFences(reply.text))))


\* "correctOption"\s*:\s*"([^"]+)" matches the text t from position k, where
\* the key stands, with the quotes of the value at o and e
IsOptionPair(t, k, o, e) ==
  /\ \E c \in (k + Len(Q_correctOption))..(o - 1) :
       /\ t[c] = ":"
       /\ \A i \in (k + Len(Q_correctOption))..(c - 1) : IsSpace(t[i])
       /\ \A i \in (c + 1)..(o - 1) : IsSpace(t[i])
  /\ t[o] = QUOTE /\ t[e] = QUOTE
  /\ e > o + 1
  /\ \A i \in (o + 1)..(e - 1) : t[i] # QUOTE

\* the positions where t has a "correctOption": "..." pair with a non-empty
\* quote-free value
OptionPairs(t) ==
  {k \in 1..Len(t) :
     /\ StartsWithAt(t, k, Q_correctOption)
     /\ \E o \in (k + Len(Q_correctOption) + 1)..Len(t) :
          \E e \in (o + 2)..Len(t) : IsOptionPair(t, k, o, e)}

\* the text between the quotes of the value of the pair of t at position k
OptionValueAt(t, k) ==
  LET o == CHOOSE x \in (k + Len(Q_correctOption) + 1)..Len(t) :
             \E e \in (x + 2)..Len(t) : IsOptionPair(t, k, x, e)
      e == CHOOSE y \in (o + 2)..Len(t) : IsOptionPair(t, k, o, y)
  IN SubSeq(t, o + 1, e - 1)

\* the correctOption the claim gives for the cleaned text t
OptionOrSentinel(t) ==
  With(OptionPairs(t), LAMBDA pairs :
    IF pairs = {} THEN NotSpecified
    ELSE OptionValueAt(t, CHOOSE k \in pairs : \A y \in pairs : k <= y))

\* C19: the correctOption of the MCQ field recovery is the text between the
\* quotes of the value of the "correctOption" key, it is the sentinel
\* "Not specified" when the text has no "correctOption": "..." pair with a
\* non-empty quote-free value, and it is never an empty string, null or absent
C19_CorrectOptionOrSentinel ==
  (AnsweredText /\ response.via = "recovered") =>
    /\ HasKey(response.body.o, K_correctOption)
    /\ Get(response.body, K_correctOption).t = "string"
    /\ Get(response.body, K_correctOption).s # <<>>
    /\ Get(response.body, K_correctOption).s =
         OptionOrSentinel(Trim(StripFences(reply.text)))

\* the text gives the key an empty value and the recovery gives the sentinel
C19_EmptyValueGivesSentinel ==
  /\ AnsweredText /\ response.via = "recovered"
  /\ reply.src.t = "object" /\ Get(reply.src, K_correctOption) = JStr(<<>>)
  /\ IndexFrom(reply.text, Q_correctOption, 1) > 0
  /\ OptionPairs(Trim(StripFences(reply.text))) = {}
  /\ Get(response.body, K_correctOption) = JStr(NotSpecified)

\* the text gives the key the value B and the recovery gives B
C19_ValueCaptured ==
  /\ AnsweredText /\ response.via = "recovered"
  /\ OptionPairs(Trim(StripFences(reply.text))) # {}
  /\ Get(response.body, K_correctOption) = JStr(<<"B">>)


\* the object that /api/extract has parsed from the brace span of the reply
\* (the span is JSON and its value is an object)
ExtractParsedObject ==
  /\ AnsweredText /\ flow = "extract"
  /\ BraceMatch(reply.text).found
  /\ JSONParse(BraceMatch(reply.text).text).ok
  /\ JSONParse(BraceMatch(reply.text).text).v.t = "object"

\* C21: in /api/extract a parsed object without test_cases, its
\* problem_statement being a string, is returned with test_cases the empty
\* sequence, and a parsed object without problem_statement is never returned
\* as a record: it is answered as a validation error
C21_ExtractDefaultsAndRejects ==
  ExtractParsedObject =>
    With(JSONParse(BraceMatch(reply.text).text).v, LAMBDA parsed :
      /\ (~HasKey(parsed.o, K_test_cases)
            /\ Get(parsed, K_problem_statement).t = "string") =>
           /\ response.status = 200
           /\ response.body =
                JObj(<<Prop(K_problem_statement, Get(parsed, K_problem_statement)),
                       Prop(K_test_cases, JArr(<<>>))>>)
      /\ (~HasKey(parsed.o, K_test_cases) /\ response.status = 200) =>
           Get(response.body, K_test_cases) = JArr(<<>>)
      /\ ~HasKey(parsed.o, K_problem_statement) =>
           /\ response.status = 500
           /\ response.body = JObj(<<Prop(K_error, JStr(<<ZodErrorMessage>>))>>))

\* /api/extract has returned an object written without test_cases
C21_ExtractFillsTestCases ==
  /\ ExtractParsedObject
  /\ ~HasKey(JSONParse(BraceMatch(reply.text).text).v.o, K_test_cases)
  /\ response.status = 200
  /\ Get(response.body, K_test_cases) = JArr(<<>>)

\* /api/extract has rejected an object written without problem_statement
C21_ExtractRejectsMissingStatement ==
  /\ ExtractParsedObject
  /\ ~HasKey(JSONParse(BraceMatch(reply.text).text).v.o, K_problem_statement)
  /\ response.status = 500


\* the request r to an OCR endpoint has been answered and its handler has returned
OcrDone(r) == r \in DOMAIN ocr /\ ocr[r].pc = "done"

\* C22: once a request to an OCR endpoint has finished, on the success path
\* and on every failure path, no image file that it created is left in the
\* temp directory
C22_NoTempFileLeft ==
  \A r \in DOMAIN ocr : OcrDone(r) => \A f \in files : f.owner # r

\* the write of the first image failed after the file had been made: the
\* request has been answered 500, it tracked no path, and the file is there
C22_FailedWriteLeavesFile ==
  /\ OcrDone(1) /\ ocr[1].status = 500
  /\ ocr[1].k = 1 /\ ocr[1].tempFiles = {}
  /\ [owner |-> 1, n |-> 1] \in files

\* C23: every worker created for a request to an OCR endpoint is terminated
\* by the time the request has been answered, also when the recognition of
\* its image fails
C23_NoWorkerOutlivesRequest ==
  \A r \in DOMAIN ocr : OcrDone(r) => \A w \in workers : w.owner # r

\* the recognition of the first image failed: the request has been answered
\* 500 and its worker is still alive
C23_FailedRecognitionLeavesWorker ==
  /\ OcrDone(1) /\ ocr[1].status = 500
  /\ ocr[1].worker = 1
  /\ [owner |-> 1, n |-> 1] \in workers

\* a request that ends with the record, or with a failed createWorker,
\* leaves no worker
C23_OtherPathsLeaveNoWorker ==
  \A r \in DOMAIN ocr :
    (OcrDone(r) /\ ocr[r].worker = 0) => \A w \in workers : w.owner # r

\* a file that a finished request leaves behind is one whose unlink threw
\* (it is in tempFiles) or the one whose write failed; no other file is left,
\* on the success path, after a failed createWorker or a failed recognition
C22_TrackedFilesRemoved ==
  \A r \in DOMAIN ocr :
    OcrDone(r) => \A f \in files : f.owner = r =>
      (f \in ocr[r].tempFiles \/ (ocr[r].status = 500 /\ f.n = ocr[r].k))


\* the handler of the request r is between its first await and its answer
OcrInFlight(r) == ocr[r].pc \in {"creating", "recognizing", "terminating"}

\* C27: whatever the interleaving of the requests to the OCR endpoints, a
\* step removes from the temp directory only files that the request which
\* finishes in this step created, and the files of a request still in flight
\* stay where they are
C27_CleanupDeletesOwnFilesOnly ==
  [][\A f \in files \ files' :
       /\ ~OcrDone(f.owner)
       /\ ocr'[f.owner].pc = "done"
       /\ f \in ocr[f.owner].tempFiles]_vars

\* one request has finished and its file is gone, the file of the other
\* request, which is in flight, is still in the temp directory
C27_OtherRequestKeepsItsFile ==
  /\ DOMAIN ocr = 1..MaxOcrRequests
  /\ OcrDone(1) /\ ocr[1].status = 200 /\ ocr[1].tempFiles # {}
  /\ \A f \in files : f.owner # 1
  /\ OcrInFlight(2) /\ ocr[2].tempFiles # {}
  /\ ocr[2].tempFiles \subseteq files


\* C24: every request is answered exactly once on every path: no handler
\* sends two responses, a handler that has returned has sent one, and a
\* handler that has not returned yet has a step to take (after the reply of
\* the model this is the step of its flow, which sends a response whatever
\* the reply)
C24_AnsweredExactlyOnce ==
  /\ sent <= 1
  /\ (pc = "done") <=> (sent = 1)
  /\ pc = "received" =>
       ENABLED (\/ AnswerMcqReceive \/ ExtractReceive \/ GenerateReceive
                \/ DebugReceive \/ ClaudeGenerateReceive \/ MistralGenerateReceive)
  /\ pc = "awaiting" => ENABLED ModelFails
  /\ pc = "replied" => flow \in Flows
  /\ \A r \in DOMAIN ocr :
       /\ ocr[r].sent <= 1
       /\ OcrDone(r) <=> (ocr[r].sent = 1)
       /\ ~OcrDone(r) =>
            ENABLED (\/ OcrReceive(r) \/ WorkerCreated(r) \/ Recognized(r)
                     \/ Terminated(r))

\* /api/debug has answered a text it could not parse, once, with the
\* fallback record
C24_FallbackAnsweredOnce ==
  /\ pc = "done" /\ flow = "debug" /\ response.via = "fallback"
  /\ sent = 1

\* an OCR request has been answered once after a failure
C24_OcrFailureAnsweredOnce ==
  /\ OcrDone(1) /\ ocr[1].status = 500 /\ ocr[1].sent = 1


\* C25: the input checks come before every external effect.  A request to an
\* OCR endpoint whose imageDataList is missing or no array never writes a
\* file nor makes a worker and is answered 400; a request without the body
\* field its handler checks makes no model call and is answered 400; a
\* request that finds no Anthropic key makes no model call and is answered 500
C25_ChecksBeforeEffects ==
  /\ \A r \in DOMAIN ocr : ~ocr[r].valid =>
       /\ ocr[r].pc \in {"received", "done"}
       /\ ocr[r].k = 0 /\ ocr[r].tempFiles = {} /\ ocr[r].worker = 0
       /\ \A f \in files : f.owner # r
       /\ \A w \in workers : w.owner # r
       /\ OcrDone(r) => ocr[r].status = 400
  /\ (flow \in ChecksBody /\ ~req.ok) =>
       /\ calls = 0
       /\ pc \in {"received", "done"}
       /\ pc = "done" => response.status = 400
  /\ (flow \in ChecksKey /\ ~apiKey /\ (flow \in ChecksBody => req.ok)) =>
       /\ calls = 0
       /\ pc \in {"received", "done"}
       /\ pc = "done" => response.status = 500

\* a request to an OCR endpoint without an array has been answered 400,
\* while the other request has its file and its worker
C25_InvalidListAnswered400 ==
  /\ DOMAIN ocr = 1..MaxOcrRequests
  /\ ~ocr[1].valid /\ OcrDone(1) /\ ocr[1].status = 400
  /\ ocr[2].pc = "recognizing"
  /\ files = {[owner |-> 2, n |-> 1]} /\ workers = {[owner |-> 2, n |-> 1]}

\* /api/answer-mcq has answered 500 without a model call when no key is set
C25_NoKeyAnswered500 ==
  /\ flow = "answer-mcq" /\ req.ok /\ ~apiKey
  /\ pc = "done" /\ response.status = 500 /\ calls = 0


\* the position in the cleaned text t of the first character of remainingText,
\* the text the explanation is cut from (t has the "explanation" key)
ExplanationContentStart(t) == Len(t) - Len(AfterOpeningQuote(t)) + 1

\* the position of the last character of the "explanation" key in t
ExplanationKeyEnd(t) == IndexFrom(t, Q_explanation, 1) + Len(Q_explanation) - 1

\* /api/answer-mcq has answered with a recovered explanation that is neither
\* the sentinel nor empty
RecoveredSomeExplanation ==
  /\ AnsweredText /\ flow = "answer-mcq" /\ response.via = "recovered"
  /\ Get(response.body, K_explanation) \notin {JStr(NoExplanation), JStr(<<>>)}

\* C26: in the field recovery of /api/answer-mcq an explanation other than
\* the sentinel is cut from the text that follows the "explanation" key of
\* the cleaned text: it holds no character that stands before the end of the
\* key, also when no colon or no opening quote follows the key
C26_ExplanationTakenAfterKey ==
  RecoveredSomeExplanation =>
    ExplanationContentStart(Trim(StripFences(reply.text)))
      > ExplanationKeyEnd(Trim(StripFences(reply.text)))

\* with no colon after the key the explanation returned is the text between
\* the first quote of the cleaned text and the closing quote of the key
C26_ExplanationHoldsTextBeforeKey ==
  /\ RecoveredSomeExplanation
  /\ IndexFrom(Trim(StripFences(reply.text)), <<":">>,
               IndexFrom(Trim(StripFences(reply.text)), Q_explanation, 1)) = 0
  /\ ExplanationContentStart(Trim(StripFences(reply.text))) = 3
  /\ Get(response.body, K_explanation) =
       JStr(Tail(Q_correctOption) \o <<":", " ", QUOTE, "B", QUOTE, ",", " ">>
              \o <<QUOTE, "e", "x", "p", "l", "a", "n", "a", "t", "i", "o", "n">>)

\* with no quote after the colon of the key the explanation returned starts
\* with the first character of the cleaned text
C26_ExplanationFromStartOfText ==
  /\ RecoveredSomeExplanation
  /\ ExplanationContentStart(Trim(StripFences(reply.text))) = 1
  /\ Get(response.body, K_explanation) =
       JStr(<<"{">> \o Q_correctOption \o <<":", " ", QUOTE, "B">>)

\* when a colon follows the key and a quote follows that colon, the
\* explanation is cut from the text after the key
C26_AfterKeyWhenColonAndQuoteFollow ==
  (/\ RecoveredSomeExplanation
   /\ IndexFrom(Trim(StripFences(reply.text)), <<":">>,
                IndexFrom(Trim(StripFences(reply.text)), Q_explanation, 1)) > 0
   /\ IndexFrom(Trim(StripFences(reply.text)), <<QUOTE>>,
                IndexFrom(Trim(StripFences(reply.text)), <<":">>,
                          IndexFrom(Trim(StripFences(reply.text)), Q_explanation, 1)) + 1) > 0) =>
    ExplanationContentStart(Trim(StripFences(reply.text)))
      > ExplanationKeyEnd(Trim(StripFences(reply.text)))

=============================================================================
